---- MODULE Spec2Model ----
(***************************************************************************)
(* Model of the redactable library: the policy engine (apply_policy and    *)
(* its helpers), the Rule/RuleWhere predicates, the policy loader, the     *)
(* detector registry and the high-level apply() facade.                    *)
(*                                                                         *)
(* Python str values are sequences of one-character strings.  Optional     *)
(* values are sequences of length 0 (None) or 1 (the value).               *)
(***************************************************************************)
EXTENDS Integers, Sequences, FiniteSets, TLC

VARIABLES
    text,       \* the text handed to scan / apply_policy
    findings,   \* the list[Finding] handed to apply_policy
    policy,     \* Policy.rules, a sequence of Rule records
    out,        \* what apply_policy returned
    log,        \* the replacements apply_policy performed, in execution order
    pc,         \* position of the caller
    doc,        \* a policy document as read by load_policy
    detectors,  \* DetectorRegistry.detectors
    prev,       \* the output of the previous apply() call
    arg,        \* argument record of a helper call
    ret         \* what the helper call returned

vars == <<text, findings, policy, out, log, pc, doc, detectors, prev, arg, ret>>

----------------------------------------------------------------------------
(* Bounds of the model *)

MaxTextLen == 2
MaxFindings == 2
MaxRules == 2
MaxMaskLen == 3
MaxKeep == 2
DigestLen == 2

----------------------------------------------------------------------------
(* Python primitives *)

None == <<>>
Some(x) == <<x>>
IsNone(o) == Len(o) = 0
Get(o) == o[1]

\* Op of the value of v, v being evaluated once.
With(v, Op(_)) == CHOOSE y \in {Op(x) : x \in {v}} : TRUE

Unused == <<>>

\* Normalisation of one slice bound against a sequence of length n.
PyIndex(i, n) ==
    IF i < 0 THEN (IF i + n < 0 THEN 0 ELSE i + n)
             ELSE (IF i > n THEN n ELSE i)

\* s[i:j]
PySlice(s, i, j) ==
    LET lo == PyIndex(i, Len(s))
        hi == PyIndex(j, Len(s))
    IN  IF lo < hi THEN SubSeq(s, lo + 1, hi) ELSE <<>>

\* s[i:]
PyFrom(s, i) == PySlice(s, i, Len(s))

\* s[:j]
PyTo(s, j) == PySlice(s, 0, j)

\* g * n
RECURSIVE PyRepeat(_, _)
PyRepeat(g, n) == IF n <= 0 THEN <<>> ELSE g \o PyRepeat(g, n - 1)

LowerChars ==
    <<"a", "b", "c", "d", "e", "f", "g", "h", "i", "j", "k", "l", "m",
      "n", "o", "p", "q", "r", "s", "t", "u", "v", "w", "x", "y", "z">>
UpperChars ==
    <<"A", "B", "C", "D", "E", "F", "G", "H", "I", "J", "K", "L", "M",
      "N", "O", "P", "Q", "R", "S", "T", "U", "V", "W", "X", "Y", "Z">>

\* Mutant: the case is left as it is.
PyUpper_identity(s) == s

\* str.upper()
PyUpper(s) ==
    [i \in 1..Len(s) |->
        IF \E k \in 1..Len(LowerChars) : LowerChars[k] = s[i]
        THEN UpperChars[CHOOSE k \in 1..Len(LowerChars) : LowerChars[k] = s[i]]
        ELSE s[i]]

Digits == <<"0", "1", "2", "3", "4", "5", "6", "7", "8", "9">>

\* The characters the model's texts, templates and salts are made of; ord(c)
\* is the position in this table.
CharTable ==
    LowerChars \o UpperChars \o
    <<"@", ".", " ", "[", "]", ":", "*", "#", "_", "-", "<", ">", "{", "}">> \o Digits

Ord(c) == IF \E k \in 1..Len(CharTable) : CharTable[k] = c
          THEN CHOOSE k \in 1..Len(CharTable) : CharTable[k] = c
          ELSE 0

HexDigits == <<"0", "1", "2", "3", "4", "5", "6", "7", "8", "9", "a", "b", "c", "d", "e", "f">>

RECURSIVE Pow(_, _)
Pow(b, n) == IF n = 0 THEN 1 ELSE b * Pow(b, n - 1)

RECURSIVE DigestOf(_, _)
DigestOf(s, h) ==
    IF s = <<>> THEN h
    ELSE DigestOf(Tail(s), (h * 31 + Ord(Head(s)) + 7) % Pow(16, DigestLen))

RECURSIVE HexOf(_, _)
HexOf(n, width) ==
    IF width = 0 THEN <<>>
    ELSE HexOf(n \div 16, width - 1) \o <<HexDigits[(n % 16) + 1]>>

----------------------------------------------------------------------------
(* policy/engine.py *)

\* _MaskCfg
_MaskCfg(h, t, g) == [keep_head |-> h, keep_tail |-> t, glyph |-> g]

_mask_segment(s, cfg) ==
    IF Len(s) <= cfg.keep_head + cfg.keep_tail
    THEN PyRepeat(cfg.glyph, Len(s))
    ELSE LET mid == PyRepeat(cfg.glyph, Len(s) - cfg.keep_head - cfg.keep_tail)
         IN  PyTo(s, cfg.keep_head) \o mid \o PyFrom(s, 0 - cfg.keep_tail)

\* transforms/mask.py
_mask(value, keep_head, keep_tail, glyph) ==
    IF Len(value) <= keep_head + keep_tail
    THEN PyRepeat(glyph, Len(value))
    ELSE PyTo(value, keep_head)
         \o PyRepeat(glyph, Len(value) - keep_head - keep_tail)
         \o PyFrom(value, 0 - keep_tail)

\* hashlib.sha256((salt + value).encode()).hexdigest(): a fixed-width hex
\* digest of the concatenation.
_sha256(value, salt) == HexOf(DigestOf(salt \o value, 0), DigestLen)

\* The default placeholder "[REDACTED:{kind}]"
DefaultPlaceholder ==
    <<"[", "R", "E", "D", "A", "C", "T", "E", "D", ":", "{", "k", "i", "n", "d", "}", "]">>

\* The name of the only keyword argument apply_policy passes to str.format.
KindField == <<"k", "i", "n", "d">>

\* template.format(kind=k) read from position i on: "{{" and "}}" are literal
\* braces, "{name}" is a replacement field. The field {kind} is replaced by k;
\* any other name raises KeyError, an empty or numeric name IndexError, and an
\* unmatched brace ValueError (ok = FALSE, error names the exception).
RECURSIVE FormatFrom(_, _, _)
FormatFrom(template, i, k) ==
    IF i > Len(template) THEN [ok |-> TRUE, s |-> <<>>, error |-> ""]
    ELSE IF template[i] \in {"{", "}"} /\ i < Len(template) /\ template[i + 1] = template[i]
    THEN LET rest == FormatFrom(template, i + 2, k)
         IN  [rest EXCEPT !.s = <<template[i]>> \o @]
    ELSE IF template[i] = "}"
    THEN [ok |-> FALSE, s |-> <<>>, error |-> "ValueError"]
    ELSE IF template[i] = "{"
    THEN LET closing == {j \in (i + 1)..Len(template) : template[j] = "}"}
         IN  IF closing = {}
             THEN [ok |-> FALSE, s |-> <<>>, error |-> "ValueError"]
             ELSE LET j == CHOOSE c \in closing : \A d \in closing : c <= d
                      name == SubSeq(template, i + 1, j - 1)
                      rest == FormatFrom(template, j + 1, k)
                  IN  IF \E x \in 1..Len(name) : name[x] = "{"
                      THEN [ok |-> FALSE, s |-> <<>>, error |-> "ValueError"]
                      ELSE IF name = KindField
                      THEN [rest EXCEPT !.s = k \o @]
                      ELSE IF \A x \in 1..Len(name) : \E d \in 1..Len(Digits) : Digits[d] = name[x]
                      THEN [ok |-> FALSE, s |-> <<>>, error |-> "IndexError"]
                      ELSE [ok |-> FALSE, s |-> <<>>, error |-> "KeyError"]
    ELSE LET rest == FormatFrom(template, i + 1, k)
         IN  [rest EXCEPT !.s = <<template[i]>> \o @]

\* placeholder.format(kind=k)
PyFormat(template, k) == FormatFrom(template, 1, k)

\* Mutant: a replacement that starts exactly at the position counts too.
RECURSIVE _cumulative_offset_inclusive(_, _)
_cumulative_offset_inclusive(offsets, position) ==
    IF offsets = <<>> THEN 0
    ELSE (IF Head(offsets)[1] <= position THEN Head(offsets)[2] ELSE 0)
         + _cumulative_offset_inclusive(Tail(offsets), position)

RECURSIVE _cumulative_offset(_, _)
_cumulative_offset(offsets, position) ==
    IF offsets = <<>> THEN 0
    ELSE (IF Head(offsets)[1] < position THEN Head(offsets)[2] ELSE 0)
         + _cumulative_offset(Tail(offsets), position)

----------------------------------------------------------------------------
(* policy/model.py *)

\* re.search(pattern, s) for the patterns of the model: a literal with an
\* optional ^ anchor (pre) and an optional $ anchor (post).
Pattern(pre, lit, post) == [pre |-> pre, lit |-> lit, post |-> post]

ReSearch(p, s) ==
    \E i \in 0..Len(s) :
        /\ i + Len(p.lit) <= Len(s)
        /\ SubSeq(s, i + 1, i + Len(p.lit)) = p.lit
        /\ p.pre => i = 0
        /\ p.post => i + Len(p.lit) = Len(s)

\* A metadata value: a str (t = "str") or a value of another type.
Val(t, v) == [t |-> t, v |-> v]

\* MetadataPredicate.applies
MetadataPredicate_applies(pred, value) ==
    IF ~IsNone(pred.equals) /\ value # Get(pred.equals) THEN FALSE
    ELSE IF ~IsNone(pred.matches)
         THEN (IF value.t # "str" THEN FALSE
               ELSE ReSearch(Get(pred.matches), value.v))
         ELSE TRUE

\* Mutant: a metadata key missing from the extras passes.
RuleWhere_applies_missing_key_passes(w, finding) ==
    IF ~IsNone(w.min_confidence) /\ finding.confidence < Get(w.min_confidence)
    THEN FALSE
    ELSE IF ~IsNone(w.max_confidence) /\ finding.confidence > Get(w.max_confidence)
    THEN FALSE
    ELSE IF ~IsNone(w.value_matches) /\ ~ReSearch(Get(w.value_matches), finding.value)
    THEN FALSE
    ELSE IF ~IsNone(w.normalized_matches)
            /\ LET norm == IF IsNone(finding.normalized) THEN <<>>
                           ELSE Get(finding.normalized)
               IN  norm = <<>> \/ ~ReSearch(Get(w.normalized_matches), norm)
    THEN FALSE
    ELSE IF ~IsNone(w.metadata) /\ DOMAIN Get(w.metadata) # {}
    THEN \A key \in DOMAIN Get(w.metadata) :
            key \in DOMAIN finding.extras =>
                MetadataPredicate_applies(Get(w.metadata)[key], finding.extras[key])
    ELSE TRUE

\* RuleWhere.applies
RuleWhere_applies(w, finding) ==
    IF ~IsNone(w.min_confidence) /\ finding.confidence < Get(w.min_confidence)
    THEN FALSE
    ELSE IF ~IsNone(w.max_confidence) /\ finding.confidence > Get(w.max_confidence)
    THEN FALSE
    ELSE IF ~IsNone(w.value_matches) /\ ~ReSearch(Get(w.value_matches), finding.value)
    THEN FALSE
    ELSE IF ~IsNone(w.normalized_matches)
            /\ LET norm == IF IsNone(finding.normalized) THEN <<>>
                           ELSE Get(finding.normalized)
               IN  norm = <<>> \/ ~ReSearch(Get(w.normalized_matches), norm)
    THEN FALSE
    ELSE IF ~IsNone(w.metadata) /\ DOMAIN Get(w.metadata) # {}
    THEN \A key \in DOMAIN Get(w.metadata) :
            /\ key \in DOMAIN finding.extras
            /\ MetadataPredicate_applies(Get(w.metadata)[key], finding.extras[key])
    ELSE TRUE

\* Rule.applies_to
applies_to(rule, finding) ==
    IF IsNone(rule.where) THEN TRUE
    ELSE RuleWhere_applies(Get(rule.where), finding)

\* A Rule with the defaults of its fields.
NoWhere ==
    [min_confidence |-> None, max_confidence |-> None, value_matches |-> None,
     normalized_matches |-> None, metadata |-> None]

Rule(id, field, action) ==
    [id |-> id, field |-> field, action |-> action, where |-> None,
     replacement |-> None, keep_head |-> 0, keep_tail |-> 4,
     mask_glyph |-> <<"*">>, salt |-> <<>>]

\* A Finding as __post_init__ leaves it.
Finding(kind, value, span, confidence, normalized, extras) ==
    [kind |-> kind, value |-> value, span |-> span, confidence |-> confidence,
     normalized |-> normalized, extras |-> extras]

NoExtras == [k \in {} |-> Val("str", <<>>)]

----------------------------------------------------------------------------
(* policy/engine.py: apply_policy *)

\* by_kind.get(rule.field, []): the indices of the findings of that kind, in
\* list order.
ByKind(fs, kind) ==
    SelectSeq([i \in 1..Len(fs) |-> i], LAMBDA i : fs[i].kind = kind)

\* targets of a rule: by_kind lookup, then the where filter.
Targets(rule, fs) ==
    LET targets == ByKind(fs, rule.field)
    IN  IF ~IsNone(rule.where)
        THEN SelectSeq(targets, LAMBDA i : applies_to(rule, fs[i]))
        ELSE targets

\* Mutant: the end is shifted by the offset of the start.
Adjusted_shift_by_start(offsets, fs, targets) ==
    [k \in 1..Len(targets) |->
        LET f == fs[targets[k]]
        IN  [f |-> targets[k],
             adj_start |-> f.span[1] + _cumulative_offset(offsets, f.span[1]),
             adj_end |-> f.span[2] + _cumulative_offset(offsets, f.span[1])]]

\* adjusted_targets: (finding, adj_start, adj_end)
Adjusted(offsets, fs, targets) ==
    [k \in 1..Len(targets) |->
        LET f == fs[targets[k]]
        IN  [f |-> targets[k],
             adj_start |-> f.span[1] + _cumulative_offset(offsets, f.span[1]),
             adj_end |-> f.span[2] + _cumulative_offset(offsets, f.span[2])]]

\* Mutant: the normalized form is ignored.
NormalizedOrValue_value_only(f) == f.value

\* f.normalized or f.value
NormalizedOrValue(f) ==
    IF IsNone(f.normalized) \/ Get(f.normalized) = <<>> THEN f.value
    ELSE Get(f.normalized)

\* rule.replacement or "[REDACTED:{kind}]"
Placeholder(rule) ==
    IF IsNone(rule.replacement) \/ Get(rule.replacement) = <<>>
    THEN DefaultPlaceholder
    ELSE Get(rule.replacement)

\* The replacement text of one adjusted target under the rule's action.
ReplacementText(rule, f, cur, a) ==
    IF rule.action = "redact" THEN PyFormat(Placeholder(rule), PyUpper(f.kind)).s
    ELSE IF rule.action = "mask"
    THEN _mask_segment(PySlice(cur, a.adj_start, a.adj_end),
                       _MaskCfg(rule.keep_head, rule.keep_tail, rule.mask_glyph))
    ELSE _sha256(NormalizedOrValue(f), rule.salt)

\* replacements: (adjusted_start, adjusted_end, replacement_text, original_start)
Replacements(rule, fs, cur, adjusted) ==
    IF rule.action \in {"redact", "mask", "tokenize"}
    THEN [k \in 1..Len(adjusted) |->
            [f |-> adjusted[k].f,
             adj_start |-> adjusted[k].adj_start,
             adj_end |-> adjusted[k].adj_end,
             replacement |-> ReplacementText(rule, fs[adjusted[k].f], cur, adjusted[k]),
             orig_start |-> fs[adjusted[k].f].span[1]]]
    ELSE <<>>

\* sorted(replacements, key=lambda r: r[0], reverse=True): stable, descending.
RECURSIVE InsertDesc(_, _)
InsertDesc(x, sorted) ==
    IF sorted = <<>> THEN <<x>>
    ELSE IF Head(sorted).adj_start >= x.adj_start
         THEN <<Head(sorted)>> \o InsertDesc(x, Tail(sorted))
         ELSE <<x>> \o sorted

RECURSIVE SortedDesc(_)
SortedDesc(reps) ==
    IF reps = <<>> THEN <<>>
    ELSE InsertDesc(reps[Len(reps)], SortedDesc(SubSeq(reps, 1, Len(reps) - 1)))

\* Mutant: the ledger records the adjusted start of a replacement.
RECURSIVE ApplyReplacements_keyed_by_adjusted(_, _, _)
ApplyReplacements_keyed_by_adjusted(st, reps, ri) ==
    IF reps = <<>> THEN st
    ELSE LET r == Head(reps)
             delta == Len(r.replacement) - (r.adj_end - r.adj_start)
         IN  ApplyReplacements_keyed_by_adjusted(
                [st EXCEPT
                    !.out = PyTo(st.out, r.adj_start) \o r.replacement
                            \o PyFrom(st.out, r.adj_end),
                    !.offsets = IF delta # 0
                                THEN Append(st.offsets, <<r.adj_start, delta>>)
                                ELSE st.offsets,
                    !.log = Append(st.log,
                                [rule |-> ri, f |-> r.f,
                                 adj_start |-> r.adj_start, adj_end |-> r.adj_end,
                                 replacement |-> r.replacement,
                                 len_before |-> Len(st.out),
                                 replaced |-> PySlice(st.out, r.adj_start, r.adj_end)])],
                Tail(reps), ri)

\* The replacement loop of one rule (engine.py lines 125-129).
RECURSIVE ApplyReplacements(_, _, _)
ApplyReplacements(st, reps, ri) ==
    IF reps = <<>> THEN st
    ELSE LET r == Head(reps)
             delta == Len(r.replacement) - (r.adj_end - r.adj_start)
         IN  ApplyReplacements(
                [st EXCEPT
                    !.out = PyTo(st.out, r.adj_start) \o r.replacement
                            \o PyFrom(st.out, r.adj_end),
                    !.offsets = IF delta # 0
                                THEN Append(st.offsets, <<r.orig_start, delta>>)
                                ELSE st.offsets,
                    !.log = Append(st.log,
                                [rule |-> ri, f |-> r.f,
                                 adj_start |-> r.adj_start, adj_end |-> r.adj_end,
                                 replacement |-> r.replacement,
                                 len_before |-> Len(st.out),
                                 replaced |-> PySlice(st.out, r.adj_start, r.adj_end)])],
                Tail(reps), ri)

\* One iteration of "for rule in policy.rules".
RuleStep(st, rule, ri, fs) ==
    LET targets == Targets(rule, fs)
        adjusted == Adjusted(st.offsets, fs, targets)
        raises == /\ rule.action = "redact"
                  /\ ~PyFormat(Placeholder(rule), <<>>).ok
    IN  IF targets = <<>> THEN st
        ELSE IF raises
        THEN [st EXCEPT !.status = PyFormat(Placeholder(rule), <<>>).error]
        ELSE ApplyReplacements(st, SortedDesc(Replacements(rule, fs, st.out, adjusted)), ri)

RECURSIVE RunRules(_, _, _, _)
RunRules(st, rules, ri, fs) ==
    IF ri > Len(rules) \/ st.status # "ok" THEN st
    ELSE RunRules(RuleStep(st, rules[ri], ri, fs), rules, ri + 1, fs)

\* apply_policy(policy, findings, text): status "ok" with the returned text,
\* or the exception it raised.
apply_policy(rules, fs, txt) ==
    RunRules([status |-> "ok", out |-> txt, offsets |-> <<>>, log |-> <<>>],
             rules, 1, fs)

----------------------------------------------------------------------------
(* Inputs of the engine specification *)

SeqsUpTo(S, n) == UNION {[1..k -> S] : k \in 0..n}

BaseChars == <<"a", "b", "a", "c">>
BaseText(n) == [i \in 1..n |-> BaseChars[((i - 1) % Len(BaseChars)) + 1]]
Texts == {BaseText(n) : n \in 0..MaxTextLen}

Spans(n) == {sp \in (0..n) \X (0..n) : sp[1] <= sp[2]}

Email == <<"e", "m", "a", "i", "l">>
Phone == <<"p", "h", "o", "n", "e">>
Kinds == {Email, Phone}

\* Findings as a detector reports them for txt: value is the text under the span.
EngineFindings(txt) ==
    {Finding(k, PySlice(txt, sp[1], sp[2]), sp, 9, None, NoExtras) :
        k \in Kinds, sp \in Spans(Len(txt))}

\* Position of a finding in the order scan returns findings in: (start, end),
\* then the registration order of the detectors (email before phone).
ScanKey(f) == (f.span[1] * (MaxTextLen + 1) + f.span[2]) * 2 + (IF f.kind = Email THEN 0 ELSE 1)

\* The lists of at most n findings of S in scan order.
ScanLists(S, n) ==
    UNION {{fs \in [1..k -> S] : \A i \in 1..k : \A j \in 1..k :
                i < j => ScanKey(fs[i]) < ScanKey(fs[j])} : k \in 0..n}

EngineRules ==
    {Rule("r", Email, "redact"),
     [Rule("r", Email, "redact") EXCEPT !.replacement = Some(<<"X">>)],
     [Rule("r", Email, "mask") EXCEPT !.keep_head = 0, !.keep_tail = 1],
     [Rule("r", Phone, "mask") EXCEPT !.keep_head = 1, !.keep_tail = 1],
     Rule("r", Phone, "tokenize")}

----------------------------------------------------------------------------
(* Specification of one apply_policy call *)

Init ==
    /\ text \in Texts
    /\ findings \in ScanLists(EngineFindings(text), MaxFindings)
    /\ policy \in SeqsUpTo(EngineRules, MaxRules)
    /\ out = <<>>
    /\ log = <<>>
    /\ pc = "ready"
    /\ doc = Unused
    /\ detectors = Unused
    /\ prev = Unused
    /\ arg = Unused
    /\ ret = Unused

\* apply_policy returns the rewritten text.
ApplyPolicyReturns ==
    /\ pc = "ready"
    /\ \E r \in {apply_policy(policy, findings, text)} :
        /\ r.status = "ok"
        /\ out' = r.out
        /\ log' = r.log
    /\ pc' = "returned"
    /\ UNCHANGED <<text, findings, policy, doc, detectors, prev, arg, ret>>

\* apply_policy raises (the KeyError of str.format); nothing is returned.
ApplyPolicyRaises ==
    /\ pc = "ready"
    /\ apply_policy(policy, findings, text).status # "ok"
    /\ pc' = "raised"
    /\ UNCHANGED <<text, findings, policy, out, log, doc, detectors, prev, arg, ret>>

Next == ApplyPolicyReturns

Spec == Init /\ [][Next]_vars

----------------------------------------------------------------------------
(* Properties of apply_policy *)

SpanLen(f) == f.span[2] - f.span[1]

\* Finding i lies wholly before finding j and starts before it.
LeftOf(fs, i, j) ==
    /\ fs[i].span[2] <= fs[j].span[1]
    /\ fs[i].span[1] < fs[j].span[1]

\* No two findings overlap or start at the same offset.
Separated(fs) ==
    \A i, j \in 1..Len(fs) : i # j => (LeftOf(fs, i, j) \/ LeftOf(fs, j, i))

NonEmptySpans(fs) == \A i \in 1..Len(fs) : fs[i].span[1] < fs[i].span[2]

InsideText(fs, txt) ==
    \A i \in 1..Len(fs) :
        0 <= fs[i].span[1] /\ fs[i].span[1] <= fs[i].span[2] /\ fs[i].span[2] <= Len(txt)

\* The rules of the policy that select finding i (its kind, then the where clause).
RulesSelecting(i) ==
    {ri \in 1..Len(policy) :
        /\ findings[i].kind = policy[ri].field
        /\ applies_to(policy[ri], findings[i])}

\* The replacement of finding i computed on the original text.
OriginalReplacement(i) ==
    LET ri == CHOOSE r \in RulesSelecting(i) : TRUE
    IN  ReplacementText(policy[ri], findings[i], text,
                        [adj_start |-> findings[i].span[1],
                         adj_end |-> findings[i].span[2]])

\* The original text from offset p on, with every selected finding's span
\* replaced by its replacement.
RECURSIVE ExpectedFrom(_)
ExpectedFrom(p) ==
    IF p >= Len(text) THEN <<>>
    ELSE IF \E i \in 1..Len(findings) :
                findings[i].span[1] = p /\ RulesSelecting(i) # {}
         THEN LET i == CHOOSE i \in 1..Len(findings) :
                            findings[i].span[1] = p /\ RulesSelecting(i) # {}
              IN  OriginalReplacement(i) \o ExpectedFrom(findings[i].span[2])
         ELSE <<text[p + 1]>> \o ExpectedFrom(p + 1)

C1Pre ==
    /\ InsideText(findings, text)
    /\ NonEmptySpans(findings)
    /\ Separated(findings)
    /\ \A i \in 1..Len(findings) : Cardinality(RulesSelecting(i)) <= 1

PieceBefore(i, k) ==
    LET ks == {j \in 1..(k - 1) : log[j].f = i}
    IN  IF ks = {}
        THEN PySlice(text, findings[i].span[1], findings[i].span[2])
        ELSE log[CHOOSE j \in ks : \A j2 \in ks : j2 <= j].replacement

RECURSIVE ShiftBefore(_, _, _)
ShiftBefore(i, k, j) ==
    IF j = 0 THEN 0
    ELSE (IF j # i /\ LeftOf(findings, j, i)
          THEN Len(PieceBefore(j, k)) - SpanLen(findings[j])
          ELSE 0) + ShiftBefore(i, k, j - 1)

\* Where the text standing for finding i begins just before log entry k ran.
TrueStart(i, k) == findings[i].span[1] + ShiftBefore(i, k, Len(findings))

\* Log entry k, when its finding was replaced before, covers exactly what the
\* earlier rule wrote.
CoversEarlierText(k) ==
    LET i == log[k].f
    IN  (\E j \in 1..(k - 1) : log[j].f = i) =>
            /\ log[k].adj_start = TrueStart(i, k)
            /\ log[k].adj_end = TrueStart(i, k) + Len(PieceBefore(i, k))
            /\ log[k].replaced = PieceBefore(i, k)

\* The original text from offset p on, each finding's span holding what was
\* written for it last.
RECURSIVE LatestFrom(_)
LatestFrom(p) ==
    IF p >= Len(text) THEN <<>>
    ELSE IF \E i \in 1..Len(findings) : findings[i].span[1] = p
         THEN LET i == CHOOSE i \in 1..Len(findings) : findings[i].span[1] = p
              IN  PieceBefore(i, Len(log) + 1) \o LatestFrom(findings[i].span[2])
         ELSE <<text[p + 1]>> \o LatestFrom(p + 1)

\* C2 as stated, for every finding (zero-width ones included): whenever a
\* later rule selects a finding an earlier rule already replaced, the later
\* rule's adjusted span covers exactly the text the earlier rule wrote.
C2_AsStated ==
    (pc = "returned" /\ Separated(findings)) =>
        \A k \in 1..Len(log) : CoversEarlierText(k)

\* C2 (amended): for findings with non-empty, pairwise disjoint spans, rules
\* are applied in policy order to the current text: a later rule selecting a
\* finding that an earlier rule replaced covers exactly the text that rule
\* wrote, and the text around the findings is left intact.
C2_LaterRuleCoversEarlierText ==
    (pc = "returned" /\ Separated(findings) /\ NonEmptySpans(findings)) =>
        /\ \A k \in 1..Len(log) : CoversEarlierText(k)
        /\ out = LatestFrom(0)

\* A mask rule ran on a finding after a redact rule that changed its length.
C2_Witness ==
    /\ pc = "returned"
    /\ Separated(findings)
    /\ NonEmptySpans(findings)
    /\ \E j, k \in 1..Len(log) :
        /\ j < k
        /\ log[j].f = log[k].f
        /\ policy[log[j].rule].action = "redact"
        /\ policy[log[k].rule].action = "mask"
        /\ Len(log[j].replacement) # SpanLen(findings[log[j].f])

----------------------------------------------------------------------------
(* Specification of one masking call: _mask_segment (policy/engine.py) and   *)
(* _mask (transforms/mask.py) on the same substring and settings             *)

Strings(alphabet, n) == UNION {[1..k -> alphabet] : k \in 0..n}

\* A one-character glyph and a longer one: Rule.mask_glyph only asks for
\* min_length=1.
MaskGlyphs == {<<"*">>, <<"*", "#">>}

InitMask ==
    /\ arg \in [s : Strings({"a", "b"}, MaxMaskLen),
                keep_head : 0..MaxKeep,
                keep_tail : 0..MaxKeep,
                glyph : MaskGlyphs]
    /\ ret = Unused
    /\ pc = "ready"
    /\ text = Unused
    /\ findings = Unused
    /\ policy = Unused
    /\ out = Unused
    /\ log = Unused
    /\ doc = Unused
    /\ detectors = Unused
    /\ prev = Unused

MaskCall ==
    /\ pc = "ready"
    /\ ret' = [segment |-> _mask_segment(arg.s, _MaskCfg(arg.keep_head, arg.keep_tail, arg.glyph)),
               transform |-> _mask(arg.s, arg.keep_head, arg.keep_tail, arg.glyph)]
    /\ pc' = "returned"
    /\ UNCHANGED <<text, findings, policy, out, log, doc, detectors, prev, arg>>

NextMask == MaskCall

SpecMask == InitMask /\ [][NextMask]_vars

\* m is s with its first h and last t characters kept and glyph g in between.
KeepsHeadAndTail(m, s, h, t, g) ==
    /\ Len(m) = Len(s)
    /\ \A i \in 1..Len(m) :
        IF i <= h \/ i > Len(s) - t THEN m[i] = s[i] ELSE m[i] = g

\* C3: for keep_head = h >= 0, keep_tail = t >= 0 and a one-character glyph,
\* masking a substring s with len(s) > h + t gives a string of length len(s)
\* whose first h and last t characters are those of s and whose other
\* characters are the glyph (h = 0 and t = 0 included).
C3_MaskKeepsHeadAndTail ==
    (pc = "returned" /\ Len(arg.glyph) = 1 /\ Len(arg.s) > arg.keep_head + arg.keep_tail) =>
        /\ KeepsHeadAndTail(ret.segment, arg.s, arg.keep_head, arg.keep_tail, arg.glyph[1])
        /\ KeepsHeadAndTail(ret.transform, arg.s, arg.keep_head, arg.keep_tail, arg.glyph[1])

\* m is made of copies of the glyph only and is as long as s.
OnlyGlyphSameLength(m, s, g) ==
    /\ Len(m) = Len(s)
    /\ \A i \in 1..Len(m) : \E j \in 1..Len(g) : m[i] = g[j]

\* C4: masking a substring s with len(s) <= keep_head + keep_tail gives a
\* replacement made of the glyph only and exactly as long as s, for every
\* glyph a Rule accepts (any string of length >= 1).
C4_ShortSpanFullyMaskedSameLength ==
    (pc = "returned" /\ Len(arg.s) <= arg.keep_head + arg.keep_tail) =>
        /\ OnlyGlyphSameLength(ret.segment, arg.s, arg.glyph)
        /\ OnlyGlyphSameLength(ret.transform, arg.s, arg.glyph)

----------------------------------------------------------------------------
(* Specification of one apply_policy call with a rule carrying a where       *)
(* clause (policy/model.py: RuleWhere, MetadataPredicate)                    *)

MetaPred(equals, matches) == [equals |-> equals, matches |-> matches]

Visa == Val("str", <<"v">>)
Amex == Val("str", <<"m">>)
\* The bool True of an extras value ("valid": True).
PyTrue == Val("bool", <<"T">>)

\* RuleWhere.metadata after _coerce_metadata: absent, empty, or predicates by key.
MetadataClauses ==
    {None,
     Some(NoExtras),
     Some([brand |-> MetaPred(Some(Visa), None)]),
     Some([brand |-> MetaPred(None, Some(Pattern(TRUE, <<"v">>, FALSE)))]),
     Some([brand |-> MetaPred(Some(Visa), None), valid |-> MetaPred(Some(PyTrue), None)])}

\* The where clauses RuleWhere accepts (_ensure_any: at least one predicate,
\* min_confidence <= max_confidence). Confidence is counted in tenths.
WhereClauses ==
    {w \in [min_confidence : {None, Some(5)},
            max_confidence : {None, Some(7)},
            value_matches : {None, Some(Pattern(TRUE, <<"a">>, FALSE))},
            normalized_matches : {None, Some(Pattern(FALSE, <<>>, FALSE)),
                                  Some(Pattern(FALSE, <<"n">>, TRUE))},
            metadata : MetadataClauses] :
        ~ /\ IsNone(w.min_confidence)
          /\ IsNone(w.max_confidence)
          /\ IsNone(w.value_matches)
          /\ IsNone(w.normalized_matches)
          /\ (IsNone(w.metadata) \/ DOMAIN Get(w.metadata) = {})}

WhereRules ==
    {Rule("r", Email, "redact")}
    \cup {[Rule("r", Email, "redact") EXCEPT !.where = Some(w)] : w \in WhereClauses}

ExtrasOptions ==
    {NoExtras,
     [brand |-> Visa],
     [brand |-> Amex],
     [brand |-> PyTrue],
     [brand |-> Visa, valid |-> PyTrue],
     [brand |-> Visa, valid |-> Val("str", <<"T">>)]}

WhereText == BaseText(2)

WhereFindings ==
    {Finding(k, PySlice(WhereText, sp[1], sp[2]), sp, c, n, x) :
        k \in Kinds, sp \in {<<0, 1>>, <<1, 2>>}, c \in {3, 6, 9},
        n \in {None, Some(<<>>), Some(<<"n">>), Some(<<"m">>)},
        x \in ExtrasOptions}

InitWhere ==
    /\ text = WhereText
    /\ findings \in {<<f>> : f \in WhereFindings}
    /\ policy \in {<<r>> : r \in WhereRules}
    /\ out = <<>>
    /\ log = <<>>
    /\ pc = "ready"
    /\ doc = Unused
    /\ detectors = Unused
    /\ prev = Unused
    /\ arg = Unused
    /\ ret = Unused

SpecWhere == InitWhere /\ [][Next]_vars

\* Rule ri transformed finding i.
Transformed(ri, i) == \E k \in 1..Len(log) : log[k].rule = ri /\ log[k].f = i

\* The metadata value v passes the predicate p of a where clause.
PredicatePasses(p, v) ==
    /\ ~IsNone(p.equals) => v = Get(p.equals)
    /\ ~IsNone(p.matches) => (v.t = "str" /\ ReSearch(Get(p.matches), v.v))

\* Every constraint present in the where clause w passes on finding f; an
\* absent constraint asks nothing. A finding without a normalized value (None
\* or empty) matches no normalized_matches pattern.
PresentConstraintsPass(w, f) ==
    /\ ~IsNone(w.min_confidence) => f.confidence >= Get(w.min_confidence)
    /\ ~IsNone(w.max_confidence) => f.confidence <= Get(w.max_confidence)
    /\ ~IsNone(w.value_matches) => ReSearch(Get(w.value_matches), f.value)
    /\ ~IsNone(w.normalized_matches) =>
        /\ ~IsNone(f.normalized)
        /\ Get(f.normalized) # <<>>
        /\ ReSearch(Get(w.normalized_matches), Get(f.normalized))
    /\ ~IsNone(w.metadata) =>
        \A key \in DOMAIN Get(w.metadata) :
            /\ key \in DOMAIN f.extras
            /\ PredicatePasses(Get(w.metadata)[key], f.extras[key])

----------------------------------------------------------------------------
(* policy/loader.py and the construction of Rule and Policy (policy/model.py) *)

\* str.lower()
PyLower(s) ==
    [i \in 1..Len(s) |->
        IF \E k \in 1..Len(UpperChars) : UpperChars[k] = s[i]
        THEN LowerChars[CHOOSE k \in 1..Len(UpperChars) : UpperChars[k] = s[i]]
        ELSE s[i]]

\* str.strip()
PyStrip(s) ==
    LET inked == {i \in 1..Len(s) : s[i] # " "}
    IN  IF inked = {} THEN <<>>
        ELSE SubSeq(s, CHOOSE i \in inked : \A j \in inked : i <= j,
                       CHOOSE i \in inked : \A j \in inked : j <= i)

\* s.startswith(prefix)
StartsWith(s, prefix) ==
    Len(prefix) <= Len(s) /\ SubSeq(s, 1, Len(prefix)) = prefix

\* isinstance(v, str) and v.strip(), for an optional string v
NonBlank(v) == ~IsNone(v) /\ PyStrip(Get(v)) # <<>>

Str_redact == <<"r", "e", "d", "a", "c", "t">>
Str_mask == <<"m", "a", "s", "k">>
Str_tokenize == <<"t", "o", "k", "e", "n", "i", "z", "e">>

\* _ACTION_ALIASES
_ACTION_ALIASES ==
    {[key |-> <<"t", "o", "k", "e", "n", "i", "s", "e">>,
      action |-> <<"t", "o", "k", "e", "n", "i", "z", "e">>],
     [key |-> <<"t", "o", "k", "e", "n", "i", "z", "e">>,
      action |-> <<"t", "o", "k", "e", "n", "i", "z", "e">>],
     [key |-> <<"p", "s", "e", "u", "d", "o", "n", "y", "m", "i", "s", "e">>,
      action |-> <<"t", "o", "k", "e", "n", "i", "z", "e">>],
     [key |-> <<"p", "s", "e", "u", "d", "o", "n", "y", "m", "i", "z", "e">>,
      action |-> <<"t", "o", "k", "e", "n", "i", "z", "e">>],
     [key |-> <<"r", "e", "d", "a", "c", "t">>,
      action |-> <<"r", "e", "d", "a", "c", "t">>],
     [key |-> <<"m", "a", "s", "k">>,
      action |-> <<"m", "a", "s", "k">>],
     [key |-> <<"s", "c", "r", "u", "b">>,
      action |-> <<"r", "e", "d", "a", "c", "t">>],
     [key |-> <<"g", "e", "n", "e", "r", "a", "l", "i", "s", "e">>,
      action |-> <<"m", "a", "s", "k">>],
     [key |-> <<"g", "e", "n", "e", "r", "a", "l", "i", "z", "e">>,
      action |-> <<"m", "a", "s", "k">>]}

\* mapping of _guess_action_from_type
TypeMapping ==
    {[key |-> <<"m", "a", "s", "k">>,
      action |-> <<"m", "a", "s", "k">>],
     [key |-> <<"m", "a", "s", "k", "_", "p", "a", "n">>,
      action |-> <<"m", "a", "s", "k">>],
     [key |-> <<"t", "o", "k", "e", "n", "i", "s", "e">>,
      action |-> <<"t", "o", "k", "e", "n", "i", "z", "e">>],
     [key |-> <<"t", "o", "k", "e", "n", "i", "z", "e">>,
      action |-> <<"t", "o", "k", "e", "n", "i", "z", "e">>],
     [key |-> <<"p", "s", "e", "u", "d", "o", "n", "y", "m", "i", "s", "e">>,
      action |-> <<"t", "o", "k", "e", "n", "i", "z", "e">>],
     [key |-> <<"p", "s", "e", "u", "d", "o", "n", "y", "m", "i", "z", "e">>,
      action |-> <<"t", "o", "k", "e", "n", "i", "z", "e">>],
     [key |-> <<"h", "a", "s", "h">>,
      action |-> <<"t", "o", "k", "e", "n", "i", "z", "e">>],
     [key |-> <<"r", "e", "d", "a", "c", "t">>,
      action |-> <<"r", "e", "d", "a", "c", "t">>],
     [key |-> <<"s", "c", "r", "u", "b">>,
      action |-> <<"r", "e", "d", "a", "c", "t">>],
     [key |-> <<"g", "e", "n", "e", "r", "a", "l", "i", "s", "e">>,
      action |-> <<"m", "a", "s", "k">>],
     [key |-> <<"g", "e", "n", "e", "r", "a", "l", "i", "z", "e">>,
      action |-> <<"m", "a", "s", "k">>]}

\* prefixes of _guess_action_from_name, in order
NamePrefixes ==
    <<[key |-> <<"m", "a", "s", "k">>,
      action |-> <<"m", "a", "s", "k">>],
     [key |-> <<"t", "o", "k", "e", "n", "i", "s", "e">>,
      action |-> <<"t", "o", "k", "e", "n", "i", "z", "e">>],
     [key |-> <<"t", "o", "k", "e", "n", "i", "z", "e">>,
      action |-> <<"t", "o", "k", "e", "n", "i", "z", "e">>],
     [key |-> <<"p", "s", "e", "u", "d", "o", "n", "y", "m", "i", "s", "e">>,
      action |-> <<"t", "o", "k", "e", "n", "i", "z", "e">>],
     [key |-> <<"p", "s", "e", "u", "d", "o", "n", "y", "m", "i", "z", "e">>,
      action |-> <<"t", "o", "k", "e", "n", "i", "z", "e">>],
     [key |-> <<"h", "a", "s", "h">>,
      action |-> <<"t", "o", "k", "e", "n", "i", "z", "e">>],
     [key |-> <<"r", "e", "d", "a", "c", "t">>,
      action |-> <<"r", "e", "d", "a", "c", "t">>],
     [key |-> <<"s", "c", "r", "u", "b">>,
      action |-> <<"r", "e", "d", "a", "c", "t">>],
     [key |-> <<"g", "e", "n", "e", "r", "a", "l", "i", "s", "e">>,
      action |-> <<"m", "a", "s", "k">>],
     [key |-> <<"g", "e", "n", "e", "r", "a", "l", "i", "z", "e">>,
      action |-> <<"m", "a", "s", "k">>]>>

\* dict.get(key) on a mapping
DictGet(d, key) == IF key \in DOMAIN d THEN Some(d[key]) ELSE None

\* The first value of a sequence of optional values that is present.
FirstPresent(options) ==
    LET present == SelectSeq(options, LAMBDA o : ~IsNone(o))
    IN  IF present = <<>> THEN None ELSE Head(present)

\* A rule mapping of a policy document with none of its keys present.
RawRule ==
    [id |-> None, field |-> None, when |-> None, action |-> None,
     transform |-> None, where |-> None, replacement |-> None,
     keep_head |-> None, keep_tail |-> None, mask_glyph |-> None, salt |-> None]

\* The "when" mapping of a rule.
When(detector, field, kind) == [detector |-> detector, field |-> field, kind |-> kind]

\* A transform mapping of a policy document with none of its keys present.
TransformCfg ==
    [type |-> None, show_first |-> None, show_last |-> None, keep_first |-> None,
     keep_last |-> None, keep_head |-> None, keep_tail |-> None, mask_glyph |-> None,
     glyph |-> None, replacement |-> None, salt |-> None]

_extract_field(rule) ==
    IF NonBlank(rule.field) THEN Some(PyLower(PyStrip(Get(rule.field))))
    ELSE IF ~IsNone(rule.when)
    THEN LET when == Get(rule.when)
             candidates == SelectSeq(<<when.detector, when.field, when.kind>>, NonBlank)
         IN  IF candidates = <<>> THEN None
             ELSE Some(PyLower(PyStrip(Get(Head(candidates)))))
    ELSE None

_guess_action_from_type(t) ==
    IF IsNone(t) \/ Get(t) = <<>> THEN None
    ELSE LET key == PyLower(PyStrip(Get(t)))
         IN  IF \E e \in TypeMapping : e.key = key
             THEN Some((CHOOSE e \in TypeMapping : e.key = key).action)
             ELSE None

_guess_action_from_name(name) ==
    IF name = <<>> THEN None
    ELSE LET key == PyLower(PyStrip(name))
             hits == SelectSeq(NamePrefixes, LAMBDA e : StartsWith(key, e.key))
         IN  IF hits = <<>> THEN None ELSE Some(Head(hits).action)

_infer_action(rule, transform_types, default_action) ==
    IF NonBlank(rule.action) THEN rule.action
    ELSE IF NonBlank(rule.transform)
    THEN LET transform_key == PyStrip(Get(rule.transform))
             cfg == DictGet(transform_types, transform_key)
             action == IF IsNone(cfg) THEN None
                       ELSE _guess_action_from_type(Get(cfg).type)
         IN  IF ~IsNone(action) THEN action
             ELSE _guess_action_from_name(transform_key)
    ELSE IF NonBlank(default_action) THEN default_action
    ELSE None

\* The rule payload after _merge_transform_settings(rule, transform, action).
_merge_transform_settings(rule, transform, action) ==
    IF IsNone(transform) THEN rule
    ELSE LET t == Get(transform)
             glyph == FirstPresent(SelectSeq(<<t.mask_glyph, t.glyph, t.replacement>>,
                                             LAMBDA o : ~IsNone(o) /\ Get(o) # <<>>))
         IN  IF action = Str_mask
             THEN [rule EXCEPT
                    !.keep_head = IF IsNone(@)
                                  THEN FirstPresent(<<t.show_first, t.keep_first, t.keep_head>>)
                                  ELSE @,
                    !.keep_tail = IF IsNone(@)
                                  THEN FirstPresent(<<t.show_last, t.keep_last, t.keep_tail>>)
                                  ELSE @,
                    !.mask_glyph = IF IsNone(@) /\ NonBlank(glyph) THEN glyph ELSE @]
             ELSE IF action = Str_redact
             THEN [rule EXCEPT
                    !.replacement = IF IsNone(@) /\ NonBlank(t.replacement)
                                    THEN t.replacement ELSE @]
             ELSE IF action = Str_tokenize
             THEN [rule EXCEPT !.salt = IF IsNone(@) /\ NonBlank(t.salt) THEN t.salt ELSE @]
             ELSE rule

\* f"rule_{n}" for n < 10
GeneratedId(n) == <<"r", "u", "l", "e", "_", Digits[n + 1]>>

\* The payload _prepare_rules builds for one raw rule it keeps; n is
\* len(rules) at that moment. Only the keys of _RULE_ALLOWED_KEYS are copied.
PreparedRule(raw_rule, field, action, transform_types, n) ==
    LET rule == [id |-> IF IsNone(raw_rule.id) THEN Some(GeneratedId(n)) ELSE raw_rule.id,
                 field |-> field,
                 action |-> action,
                 replacement |-> raw_rule.replacement,
                 keep_head |-> raw_rule.keep_head,
                 keep_tail |-> raw_rule.keep_tail,
                 mask_glyph |-> raw_rule.mask_glyph,
                 salt |-> raw_rule.salt]
         transform_cfg == IF NonBlank(raw_rule.transform)
                          THEN DictGet(transform_types, PyStrip(Get(raw_rule.transform)))
                          ELSE None
    IN  _merge_transform_settings(rule, transform_cfg, action)

RECURSIVE _prepare_rules(_, _, _, _)
_prepare_rules(raw_rules, transform_types, default_action, rules) ==
    IF raw_rules = <<>> THEN rules
    ELSE LET raw_rule == Head(raw_rules)
             field == _extract_field(raw_rule)
             action == _infer_action(raw_rule, transform_types, default_action)
         IN  _prepare_rules(
                Tail(raw_rules), transform_types, default_action,
                IF IsNone(field) \/ IsNone(action) THEN rules
                ELSE Append(rules, PreparedRule(raw_rule, Get(field), Get(action),
                                                transform_types, Len(rules))))

\* A transform given as a bare string stands for {"type": value}.
Shorthand(value) == [shorthand |-> value]

_normalize_policy_payload(data) ==
    LET default_action == IF NonBlank(data.defaults_action)
                          THEN Some(PyStrip(Get(data.defaults_action)))
                          ELSE None
        transform_types ==
            [key \in DOMAIN data.transforms |->
                IF "shorthand" \in DOMAIN data.transforms[key]
                THEN [TransformCfg EXCEPT !.type = Some(data.transforms[key].shorthand)]
                ELSE data.transforms[key]]
    IN  [version |-> data.version,
         rules |-> _prepare_rules(data.rules, transform_types, default_action, <<>>)]

\* Mutant: the action is looked up without being trimmed.
_normalize_action_untrimmed(v) ==
    LET key == PyLower(v)
    IN  IF \E e \in _ACTION_ALIASES : e.key = key
        THEN (CHOOSE e \in _ACTION_ALIASES : e.key = key).action
        ELSE v

\* Rule._normalize_action: trimmed, lower-cased, then mapped through the aliases.
_normalize_action(v) ==
    LET key == PyLower(PyStrip(v))
    IN  IF \E e \in _ACTION_ALIASES : e.key = key
        THEN (CHOOSE e \in _ACTION_ALIASES : e.key = key).action
        ELSE v

\* Rule(**payload): the validated rule, or ok = FALSE for a ValidationError.
\* The payload of the loader has no "where" key, so where keeps its default.
RuleFromPayload(p) ==
    LET action == _normalize_action(p.action)
        keep_head == IF IsNone(p.keep_head) THEN 0 ELSE Get(p.keep_head)
        keep_tail == IF IsNone(p.keep_tail) THEN 4 ELSE Get(p.keep_tail)
        mask_glyph == IF IsNone(p.mask_glyph) THEN <<"*">> ELSE Get(p.mask_glyph)
        salt == IF IsNone(p.salt) THEN <<>> ELSE Get(p.salt)
        ok == /\ action \in {Str_redact, Str_mask, Str_tokenize}
              /\ ~IsNone(p.replacement) => PyStrip(Get(p.replacement)) # <<>>
              /\ keep_head >= 0
              /\ keep_tail >= 0
              /\ Len(mask_glyph) >= 1
    IN  [ok |-> ok,
         rule |-> [Rule(Get(p.id), PyLower(PyStrip(p.field)),
                        IF action = Str_mask THEN "mask"
                        ELSE IF action = Str_tokenize THEN "tokenize"
                        ELSE "redact")
                    EXCEPT !.replacement = p.replacement,
                           !.keep_head = keep_head,
                           !.keep_tail = keep_tail,
                           !.mask_glyph = mask_glyph,
                           !.salt = salt]]

\* Policy(**payload): version is a required int >= 1, every rule must validate.
\* (name is never empty here: the loader falls back to the file's stem.)
PolicyFromPayload(payload) ==
    LET built == [i \in 1..Len(payload.rules) |-> RuleFromPayload(payload.rules[i])]
    IN  [ok |-> /\ ~IsNone(payload.version)
                /\ Get(payload.version) >= 1
                /\ \A i \in 1..Len(built) : built[i].ok,
         rules |-> [i \in 1..Len(built) |-> built[i].rule]]

\* load_policy from the parsed document on (json.loads / yaml.safe_load done).
load_policy(data) == PolicyFromPayload(_normalize_policy_payload(data))

----------------------------------------------------------------------------
(* Specification of load_policy followed by apply_policy *)

Str_scrubbed == <<" ", "S", "c", "r", "u", "b", " ">>
Str_erase == <<"e", "r", "a", "s", "e">>
Str_tail1 == <<"t", "a", "i", "l", "1">>
Str_scrub_x == <<"s", "c", "r", "u", "b", "_", "x">>

\* transforms section of the documents.
DocTransforms ==
    [key \in {Str_tail1, Str_scrub_x} |->
        IF key = Str_tail1
        THEN [TransformCfg EXCEPT !.type = Some(Str_mask), !.show_last = Some(1)]
        ELSE [TransformCfg EXCEPT !.replacement = Some(<<"X">>)]]

\* where mappings written in the documents.
DocWheres ==
    {[NoWhere EXCEPT !.min_confidence = Some(5)],
     [NoWhere EXCEPT !.value_matches = Some(Pattern(TRUE, <<"a">>, FALSE))],
     [NoWhere EXCEPT !.metadata = Some([brand |-> MetaPred(Some(Visa), None)])]}

\* rules written in the documents.
DocRules ==
    {[RawRule EXCEPT !.field = Some(Email), !.action = Some(Str_redact)],
     [RawRule EXCEPT !.field = Some(Email), !.action = Some(Str_erase)],
     [RawRule EXCEPT !.field = Some(Email)],
     [RawRule EXCEPT !.action = Some(Str_redact)],
     [RawRule EXCEPT !.id = Some(<<"p">>), !.field = Some(Phone), !.action = Some(Str_scrubbed)],
     [RawRule EXCEPT !.when = Some(When(Some(<<" ", "E", "m", "a", "i", "l">>), None, None)),
                     !.transform = Some(Str_tail1)]}
    \cup {[RawRule EXCEPT !.field = Some(Email), !.action = Some(Str_redact),
                          !.where = Some(w)] : w \in DocWheres}
    \cup {[RawRule EXCEPT !.field = Some(Phone), !.transform = Some(Str_scrub_x),
                          !.where = Some([NoWhere EXCEPT !.max_confidence = Some(7)])]}

Docs ==
    [version : {None, Some(1)},
     defaults_action : {None, Some(Str_mask)},
     transforms : {DocTransforms},
     rules : UNION {[1..k -> DocRules] : k \in 1..MaxRules}]

LoadText == BaseText(2)

LoadFindings ==
    {Finding(k, PySlice(LoadText, sp[1], sp[2]), sp, c, None, x) :
        k \in Kinds, sp \in {<<0, 1>>, <<1, 2>>}, c \in {3, 9},
        x \in {NoExtras, [brand |-> Visa]}}

InitLoad ==
    /\ doc \in Docs
    /\ text = LoadText
    /\ findings \in {<<f>> : f \in LoadFindings}
    /\ policy = Unused
    /\ out = <<>>
    /\ log = <<>>
    /\ pc = "document"
    /\ detectors = Unused
    /\ prev = Unused
    /\ arg = Unused
    /\ ret = Unused

\* load_policy returns the Policy.
LoadPolicyReturns ==
    /\ pc = "document"
    /\ \E r \in {load_policy(doc)} :
        /\ r.ok
        /\ policy' = r.rules
    /\ pc' = "ready"
    /\ UNCHANGED <<text, findings, out, log, doc, detectors, prev, arg, ret>>

\* load_policy raises the ValidationError of Policy(**payload).
LoadPolicyRaises ==
    /\ pc = "document"
    /\ ~load_policy(doc).ok
    /\ pc' = "invalid"
    /\ UNCHANGED <<text, findings, policy, out, log, doc, detectors, prev, arg, ret>>

NextLoad == LoadPolicyReturns \/ LoadPolicyRaises \/ ApplyPolicyReturns

SpecLoad == InitLoad /\ [][NextLoad]_vars

\* The positions in the document of the rules _prepare_rules keeps, in order:
\* rule ri of the loaded policy was written as doc.rules[LoadedFrom[ri]].
LoadedFrom ==
    SelectSeq([i \in 1..Len(doc.rules) |-> i],
              LAMBDA i : /\ ~IsNone(_extract_field(doc.rules[i]))
                         /\ ~IsNone(_infer_action(doc.rules[i], DocTransforms,
                                                  doc.defaults_action)))

\* C6: a rule loaded from a policy document keeps its where clause: a finding
\* that does not satisfy the where constraints written in the document is
\* left untransformed by apply_policy run with the policy load_policy returned.
C6_LoadedRuleKeepsWhere ==
    pc = "returned" =>
        \A k \in 1..Len(log) :
            LET written == doc.rules[LoadedFrom[log[k].rule]]
            IN  ~IsNone(written.where) =>
                    PresentConstraintsPass(Get(written.where), findings[log[k].f])

----------------------------------------------------------------------------
(* Specification of one apply_policy call with redact rules and their        *)
(* replacement templates                                                     *)

Tpl_X == <<"X">>
Tpl_kind == <<"<", "{", "k", "i", "n", "d", "}", ">">>
Tpl_KIND == <<"<", "{", "K", "I", "N", "D", "}", ">">>
Tpl_KIND_only == <<"{", "K", "I", "N", "D", "}">>

RedactTemplates == {None, Some(Tpl_X), Some(Tpl_kind), Some(Tpl_KIND), Some(Tpl_KIND_only)}

RedactRules ==
    {[Rule("r", k, "redact") EXCEPT !.replacement = t] : k \in Kinds, t \in RedactTemplates}

RedactText == BaseText(2)

RedactFindings ==
    {Finding(k, PySlice(RedactText, sp[1], sp[2]), sp, 9, None, NoExtras) :
        k \in Kinds, sp \in {<<0, 1>>, <<1, 2>>}}

InitRedact ==
    /\ text = RedactText
    /\ findings \in ScanLists(RedactFindings, MaxFindings)
    /\ policy \in SeqsUpTo(RedactRules, MaxRules)
    /\ out = <<>>
    /\ log = <<>>
    /\ pc = "ready"
    /\ doc = Unused
    /\ detectors = Unused
    /\ prev = Unused
    /\ arg = Unused
    /\ ret = Unused

NextRedact == ApplyPolicyReturns \/ ApplyPolicyRaises

SpecRedact == InitRedact /\ [][NextRedact]_vars

\* The template has the replacement field {name}.
HasField(template, name) ==
    \E i \in 1..Len(template) :
        /\ i + Len(name) + 1 <= Len(template)
        /\ SubSeq(template, i, i + Len(name) + 1) = <<"{">> \o name \o <<"}">>

\* The template from position i on with every field {name} replaced by value.
RECURSIVE SubstituteField(_, _, _, _)
SubstituteField(template, i, name, value) ==
    IF i > Len(template) THEN <<>>
    ELSE IF /\ i + Len(name) + 1 <= Len(template)
            /\ SubSeq(template, i, i + Len(name) + 1) = <<"{">> \o name \o <<"}">>
    THEN value \o SubstituteField(template, i + Len(name) + 2, name, value)
    ELSE <<template[i]>> \o SubstituteField(template, i + 1, name, value)

Field_kind == <<"k", "i", "n", "d">>
Field_KIND == <<"K", "I", "N", "D">>

\* The kind of a finding in upper case.
KindInUpperCase(kind) ==
    IF kind = Email THEN <<"E", "M", "A", "I", "L">> ELSE <<"P", "H", "O", "N", "E">>

\* Rule ri selects at least one finding.
SelectsSome(ri) == \E i \in 1..Len(findings) : ri \in RulesSelecting(i)

\* The text a redact rule writes when its placeholder field is called name.
RedactionWith(name, rule, f) ==
    SubstituteField(IF IsNone(rule.replacement)
                    THEN <<"[", "R", "E", "D", "A", "C", "T", "E", "D", ":", "{">> \o name \o <<"}", "]">>
                    ELSE Get(rule.replacement),
                    1, name, KindInUpperCase(f.kind))

----------------------------------------------------------------------------
(* Specification of two apply_policy calls with the same policy holding      *)
(* tokenize rules                                                            *)

TokenRules ==
    {Rule("r", Email, "tokenize"),
     [Rule("r", Email, "tokenize") EXCEPT !.salt = <<"s">>],
     [Rule("r", Phone, "redact") EXCEPT !.replacement = Some(Tpl_X)]}

TokenText == BaseText(3)

\* Findings of the first call: the spans (0,1) and (2,3) hold the same value.
TokenFindings ==
    {Finding(k, PySlice(TokenText, sp[1], sp[2]), sp, 3 * (sp[1] + 1), n, NoExtras) :
        k \in Kinds, sp \in {<<0, 1>>, <<1, 2>>, <<2, 3>>},
        n \in {None, Some(<<"n">>)}}
    \cup {Finding(Email, PySlice(TokenText, 2, 3), <<2, 3>>, 9, Some(<<>>), NoExtras)}

\* Text and findings of the second call.
SecondText == <<"c", "a">>

SecondFindings ==
    {<<>>,
     <<Finding(Email, <<"a">>, <<1, 2>>, 5, None, NoExtras)>>,
     <<Finding(Email, <<"a">>, <<1, 2>>, 5, Some(<<>>), NoExtras)>>,
     <<Finding(Email, <<"c">>, <<0, 1>>, 5, Some(<<"n">>), NoExtras)>>}

InitToken ==
    /\ text = TokenText
    /\ findings \in ScanLists(TokenFindings, MaxFindings)
    /\ policy \in SeqsUpTo(TokenRules, MaxRules)
    /\ out = <<>>
    /\ log = <<>>
    /\ pc = "ready"
    /\ prev = None
    /\ doc = Unused
    /\ detectors = Unused
    /\ arg = Unused
    /\ ret = Unused

\* The caller keeps the result and calls apply_policy again with the same
\* policy on another text.
CallAgain ==
    /\ pc = "returned"
    /\ IsNone(prev)
    /\ prev' = Some([text |-> text, findings |-> findings, out |-> out, log |-> log])
    /\ text' = SecondText
    /\ findings' \in SecondFindings
    /\ out' = <<>>
    /\ log' = <<>>
    /\ pc' = "ready"
    /\ UNCHANGED <<policy, doc, detectors, arg, ret>>

NextToken == ApplyPolicyReturns \/ CallAgain

SpecToken == InitToken /\ [][NextToken]_vars

\* finding.normalized if non-empty else finding.value
TokenKey(f) ==
    IF f.normalized = None \/ f.normalized = Some(<<>>) THEN f.value
    ELSE Get(f.normalized)

\* (salt, key, token) of every replacement a tokenize rule made in a call
\* with findings fs and replacement log lg.
TokenEntries(fs, lg) ==
    {[salt |-> policy[lg[k].rule].salt,
      key |-> TokenKey(fs[lg[k].f]),
      token |-> lg[k].replacement,
      at |-> fs[lg[k].f].span,
      confidence |-> fs[lg[k].f].confidence] :
        k \in {x \in 1..Len(lg) : policy[lg[x].rule].action = "tokenize"}}

\* The tokens of this call and of the call before it.
AllTokenEntries ==
    TokenEntries(findings, log)
    \cup (IF IsNone(prev) THEN {} ELSE TokenEntries(Get(prev).findings, Get(prev).log))

\* C8: the token written by a tokenize rule is a function only of the rule's
\* salt and of finding.normalized if non-empty else finding.value: two
\* findings, of one call or of two calls, with the same salt and the same
\* normalized-or-value get the same token, whatever their position,
\* surrounding text, confidence or earlier rewrites.
C8_TokenDependsOnSaltAndKeyOnly ==
    pc = "returned" =>
        \A e1 \in AllTokenEntries : \A e2 \in AllTokenEntries :
            (e1.salt = e2.salt /\ e1.key = e2.key) => e1.token = e2.token

\* Two findings of two calls with the same salt and key, at different
\* positions and with different confidence, were tokenized, one of them under
\* a span an earlier rule had rewritten.
C8_Witness ==
    /\ pc = "returned"
    /\ ~IsNone(prev)
    /\ \E e1 \in TokenEntries(findings, log) :
       \E e2 \in TokenEntries(Get(prev).findings, Get(prev).log) :
            /\ e1.salt = e2.salt
            /\ e1.key = e2.key
            /\ e1.at # e2.at
            /\ e1.confidence # e2.confidence
    /\ \E k \in 1..Len(Get(prev).log) :
            /\ policy[Get(prev).log[k].rule].action = "tokenize"
            /\ Get(prev).log[k].replaced # Get(prev).findings[Get(prev).log[k].f].value

----------------------------------------------------------------------------
(* detectors/regexes.py: RE_EMAIL and EmailDetector                          *)
(* Offsets are those of Python: offset p names the character txt[p + 1].     *)

Range(f) == {f[i] : i \in DOMAIN f}

\* [a-zA-Z0-9]
IsAlnum(c) == c \in Range(LowerChars) \cup Range(UpperChars) \cup Range(Digits)

\* The character class of the local part: letters, digits and the specials
\* of the pattern (dot, hyphen, underscore, braces, ...). The backquote is in
\* the class too; no text of the model contains it.
IsLocalChar(c) ==
    \/ IsAlnum(c)
    \/ c \in {".", "!", "#", "$", "%", "&", "'", "*", "+", "/", "=", "?", "^", "_",
              "{", "|", "}", "~", "-"}

\* The end of the longest run of local-part characters starting at offset p.
RECURSIVE LocalRunEnd(_, _)
LocalRunEnd(txt, p) ==
    IF p < Len(txt) /\ IsLocalChar(txt[p + 1]) THEN LocalRunEnd(txt, p + 1) ELSE p

\* The end of the longest run of [a-zA-Z0-9-] starting at offset p.
RECURSIVE LabelRunEnd(_, _)
LabelRunEnd(txt, p) ==
    IF p < Len(txt) /\ (IsAlnum(txt[p + 1]) \/ txt[p + 1] = "-")
    THEN LabelRunEnd(txt, p + 1) ELSE p

\* [a-zA-Z0-9](?:[a-zA-Z0-9-]{0,61}[a-zA-Z0-9])? matched greedily at offset p:
\* the end of the label, or -1 without a match. The label is the longest run
\* of letters, digits and hyphens that starts and ends with a letter or digit
\* (texts are shorter than the 63 characters a label may have).
LabelEnd(txt, p) ==
    IF p < Len(txt) /\ IsAlnum(txt[p + 1])
    THEN LET r == LabelRunEnd(txt, p)
             ends == {q \in (p + 1)..r : IsAlnum(txt[q])}
         IN  CHOOSE q \in ends : \A x \in ends : x <= q
    ELSE -1

\* (?:\.label)* matched greedily from offset q on: the end of the last group.
RECURSIVE DomainGroupsEnd(_, _)
DomainGroupsEnd(txt, q) ==
    IF q < Len(txt) /\ txt[q + 1] = "." /\ LabelEnd(txt, q + 1) >= 0
    THEN DomainGroupsEnd(txt, LabelEnd(txt, q + 1))
    ELSE q

\* RE_EMAIL matched at offset p: the end of the match, or -1 without a match.
MatchEmailAt(txt, p) ==
    LET at == LocalRunEnd(txt, p)
    IN  IF at > p /\ at < Len(txt) /\ txt[at + 1] = "@" /\ LabelEnd(txt, at + 1) >= 0
        THEN LET first == LabelEnd(txt, at + 1)
                 last == DomainGroupsEnd(txt, first)
             IN  IF last > first THEN last ELSE -1
        ELSE -1

\* RE_EMAIL.finditer(txt) from offset pos on: the spans of the matches, left
\* to right, not overlapping.
RECURSIVE EmailMatches(_, _)
EmailMatches(txt, pos) ==
    IF pos >= Len(txt) THEN <<>>
    ELSE IF MatchEmailAt(txt, pos) >= 0
    THEN <<<<pos, MatchEmailAt(txt, pos)>>>> \o EmailMatches(txt, MatchEmailAt(txt, pos))
    ELSE EmailMatches(txt, pos + 1)

\* EmailDetector.detect without the optional email-validator package:
\* confidence 0.6 (in hundredths), normalized = raw, no extras.
EmailDetector_detect(txt) ==
    LET spans == EmailMatches(txt, 0)
    IN  [i \in 1..Len(spans) |->
            Finding(Email, PySlice(txt, spans[i][1], spans[i][2]), spans[i], 60,
                    Some(PySlice(txt, spans[i][1], spans[i][2])), NoExtras)]

----------------------------------------------------------------------------
(* detectors/base.py: digits_only, luhn_ok, guess_card_brand                 *)
(* The confidence of a finding a detector emits is counted in hundredths.    *)

IsDigit(c) == c \in Range(Digits)

\* str.isalpha() of one character
IsAlpha(c) == c \in Range(LowerChars) \cup Range(UpperChars)

\* \w
IsWordChar(c) == IsAlnum(c) \/ c = "_"

\* \s
IsSpace(c) == c \in {" ", "\t", "\n", "\r", "\f"}

IndexIn(table, c) == CHOOSE k \in 1..Len(table) : table[k] = c

\* ord(c), for the characters the checksum code is handed.
PyOrd(c) ==
    CASE IsDigit(c) -> 47 + IndexIn(Digits, c)
      [] c \in Range(UpperChars) -> 64 + IndexIn(UpperChars, c)
      [] c \in Range(LowerChars) -> 96 + IndexIn(LowerChars, c)
      [] c = " " -> 32
      [] c = "-" -> 45

\* str.isdigit()
IsDigitStr(s) == s # <<>> /\ \A i \in 1..Len(s) : IsDigit(s[i])

\* int(s) of a string of digits
RECURSIVE PyInt(_)
PyInt(s) ==
    IF s = <<>> THEN 0
    ELSE 10 * PyInt(SubSeq(s, 1, Len(s) - 1)) + (PyOrd(s[Len(s)]) - 48)

\* The end of the run of the letter D that starts at offset p.
RECURSIVE DRunEnd(_, _)
DRunEnd(s, p) == IF p < Len(s) /\ s[p + 1] = "D" THEN DRunEnd(s, p + 1) ELSE p

\* _DIGITS.sub("", s) from offset p on. _DIGITS is re.compile(r"\\D+"): in a
\* raw string the two backslashes are the pattern of one literal backslash,
\* so a match is a backslash followed by one or more letters D, and nothing
\* else is removed.
RECURSIVE DigitsOnlyFrom(_, _)
DigitsOnlyFrom(s, p) ==
    IF p >= Len(s) THEN <<>>
    ELSE IF s[p + 1] = "\\" /\ DRunEnd(s, p + 1) > p + 1
         THEN DigitsOnlyFrom(s, DRunEnd(s, p + 1))
         ELSE <<s[p + 1]>> \o DigitsOnlyFrom(s, p + 1)

digits_only(s) == DigitsOnlyFrom(s, 0)

\* The loop of luhn_ok over reversed(d): the character at position i and the
\* ones before it, alt being the flag of the loop.
RECURSIVE LuhnTotal(_, _, _)
LuhnTotal(d, i, alt) ==
    IF i = 0 THEN 0
    ELSE LET x == PyOrd(d[i]) - 48
             y == IF alt THEN (IF 2 * x > 9 THEN 2 * x - 9 ELSE 2 * x) ELSE x
         IN  y + LuhnTotal(d, i - 1, ~alt)

MinLuhnLen == 12

luhn_ok(num) ==
    LET d == digits_only(num)
    IN  IF Len(d) < MinLuhnLen THEN FALSE
        ELSE LuhnTotal(d, Len(d), FALSE) % 10 = 0

Str_visa == <<"v", "i", "s", "a">>
Str_mastercard == <<"m", "a", "s", "t", "e", "r", "c", "a", "r", "d">>
Str_amex == <<"a", "m", "e", "x">>
Str_jcb == <<"j", "c", "b">>
Str_discover == <<"d", "i", "s", "c", "o", "v", "e", "r">>
Str_diners_club == <<"d", "i", "n", "e", "r", "s", "_", "c", "l", "u", "b">>
Str_maestro == <<"m", "a", "e", "s", "t", "r", "o">>
Str_unionpay == <<"u", "n", "i", "o", "n", "p", "a", "y">>

\* d.startswith(prefixes)
StartsWithAny(d, prefixes) == \E p \in prefixes : StartsWith(d, p)

guess_card_brand(pan) ==
    LET d == digits_only(pan)
        n == Len(d)
        d2 == PyTo(d, 2)
        d4 == PyTo(d, 4)
    IN  IF StartsWith(d, <<"4">>) /\ n \in {13, 16, 19} THEN Some(Str_visa)
        ELSE IF IsDigitStr(d2) /\ 51 <= PyInt(d2) /\ PyInt(d2) <= 55 /\ n = 16
        THEN Some(Str_mastercard)
        ELSE IF IsDigitStr(d4) /\ 2221 <= PyInt(d4) /\ PyInt(d4) <= 2720 /\ n = 16
        THEN Some(Str_mastercard)
        ELSE IF StartsWithAny(d, {<<"3", "4">>, <<"3", "7">>}) /\ n = 15
        THEN Some(Str_amex)
        ELSE IF StartsWith(d, <<"3", "5">>) /\ n = 16 THEN Some(Str_jcb)
        ELSE IF StartsWithAny(d, {<<"6", "0", "1", "1">>, <<"6", "4">>, <<"6", "5">>})
        THEN Some(Str_discover)
        ELSE IF \/ d4 \in {<<"3", "0", "0", "0">>, <<"3", "0", "5", "0">>,
                            <<"3", "0", "9", "5">>}
                \/ d2 \in {<<"3", "6">>, <<"3", "8">>}
        THEN Some(Str_diners_club)
        ELSE IF StartsWithAny(d, {<<"5", "0">>, <<"5", "6">>, <<"5", "7">>, <<"5", "8">>,
                                  <<"6", "3">>, <<"6", "7">>})
        THEN Some(Str_maestro)
        ELSE IF StartsWith(d, <<"6", "2">>) THEN Some(Str_unionpay)
        ELSE None

----------------------------------------------------------------------------
(* detectors/regexes.py: the checksum detectors of the default registry,     *)
(* without the optional stdnum package                                       *)

PyFalse == Val("bool", <<"F">>)
PyBool(b) == IF b THEN PyTrue ELSE PyFalse
PyNone == Val("none", <<>>)

\* An Optional[str] as a value of extras
OptVal(o) == IF IsNone(o) THEN PyNone ELSE Val("str", Get(o))

\* \b at offset p
AtWordBoundary(txt, p) ==
    LET before == p > 0 /\ IsWordChar(txt[p])
        after == p < Len(txt) /\ IsWordChar(txt[p + 1])
    IN  before # after

MinCardUnits == 13
MaxCardUnits == 19

\* (?:\d[ -]?){..19} matched greedily from offset p on, n units being matched
\* already: for each unit the offset after its digit and the offset after its
\* optional separator.
RECURSIVE CardChain(_, _, _)
CardChain(txt, p, n) ==
    IF n = MaxCardUnits \/ p >= Len(txt) \/ ~IsDigit(txt[p + 1]) THEN <<>>
    ELSE LET e == IF p + 1 < Len(txt) /\ txt[p + 2] \in {" ", "-"} THEN p + 2 ELSE p + 1
         IN  <<[digit |-> p + 1, end |-> e]>> \o CardChain(txt, e, n + 1)

\* What has to hold before and after a card candidate: \b on both sides in
\* RE_CARD (variant "boundary"), no digit on either side in _PAN of
\* credit_card.py (variant "no_digit").
CardStartOk(txt, p, variant) ==
    IF variant = "boundary" THEN AtWordBoundary(txt, p)
    ELSE ~(p > 0 /\ IsDigit(txt[p]))

CardEndOk(txt, e, variant) ==
    IF variant = "boundary" THEN AtWordBoundary(txt, e)
    ELSE ~(e < Len(txt) /\ IsDigit(txt[e + 1]))

\* The end the regex engine settles on, trying the ends in the order of its
\* backtracking: k units with the separator of the last one, k units without
\* it, then k - 1 units; -1 when fewer than 13 units are left.
RECURSIVE CardEnd(_, _, _, _)
CardEnd(txt, chain, k, variant) ==
    IF k < MinCardUnits THEN -1
    ELSE IF CardEndOk(txt, chain[k].end, variant) THEN chain[k].end
    ELSE IF CardEndOk(txt, chain[k].digit, variant) THEN chain[k].digit
    ELSE CardEnd(txt, chain, k - 1, variant)

MatchCardAt(txt, p, variant) ==
    IF CardStartOk(txt, p, variant)
    THEN CardEnd(txt, CardChain(txt, p, 0), Len(CardChain(txt, p, 0)), variant)
    ELSE -1

\* finditer of RE_CARD or _PAN from offset pos on: the spans of the matches.
RECURSIVE CardMatches(_, _, _)
CardMatches(txt, pos, variant) ==
    IF pos >= Len(txt) THEN <<>>
    ELSE IF MatchCardAt(txt, pos, variant) >= 0
    THEN <<<<pos, MatchCardAt(txt, pos, variant)>>>>
         \o CardMatches(txt, MatchCardAt(txt, pos, variant), variant)
    ELSE CardMatches(txt, pos + 1, variant)

Str_credit_card == <<"c", "r", "e", "d", "i", "t", "_", "c", "a", "r", "d">>

\* The body of the loop of CreditCardDetector.detect for one match.
CardFindingAt(txt, sp) ==
    LET raw == PySlice(txt, sp[1], sp[2])
        digits == digits_only(raw)
        ok == luhn_ok(digits)
    IN  IF ~(MinCardUnits <= Len(digits) /\ Len(digits) <= MaxCardUnits) THEN <<>>
        ELSE <<Finding(Str_credit_card, raw, sp, IF ok THEN 90 ELSE 40, Some(digits),
                       [luhn_valid |-> PyBool(ok),
                        brand |-> OptVal(guess_card_brand(digits))])>>

RECURSIVE CardFindings(_, _)
CardFindings(txt, spans) ==
    IF spans = <<>> THEN <<>>
    ELSE CardFindingAt(txt, Head(spans)) \o CardFindings(txt, Tail(spans))

\* CreditCardDetector.detect
CreditCardDetector_detect(txt) == CardFindings(txt, CardMatches(txt, 0, "boundary"))

\* (\d{a})[\s-]?(\d{b})[\s-]?(\d{c}) matched from offset p on, sizes being the
\* lengths of the groups still to match: the end of the match or -1. A
\* separator that is present is always taken: without it the next group
\* would have to start on the separator.
RECURSIVE GroupsEnd(_, _, _)
GroupsEnd(txt, p, sizes) ==
    IF sizes = <<>> THEN p
    ELSE IF p + Head(sizes) <= Len(txt) /\ IsDigitStr(SubSeq(txt, p + 1, p + Head(sizes)))
    THEN LET q == p + Head(sizes)
         IN  IF Tail(sizes) # <<>> /\ q < Len(txt) /\ (IsSpace(txt[q + 1]) \/ txt[q + 1] = "-")
             THEN GroupsEnd(txt, q + 1, Tail(sizes))
             ELSE GroupsEnd(txt, q, Tail(sizes))
    ELSE -1

\* RE_NHS and RE_SSN at offset p: \b, the groups, \b.
MatchGroupsAt(txt, p, sizes) ==
    IF AtWordBoundary(txt, p) /\ GroupsEnd(txt, p, sizes) >= 0
       /\ AtWordBoundary(txt, GroupsEnd(txt, p, sizes))
    THEN GroupsEnd(txt, p, sizes)
    ELSE -1

RECURSIVE GroupMatches(_, _, _)
GroupMatches(txt, pos, sizes) ==
    IF pos >= Len(txt) THEN <<>>
    ELSE IF MatchGroupsAt(txt, pos, sizes) >= 0
    THEN <<<<pos, MatchGroupsAt(txt, pos, sizes)>>>>
         \o GroupMatches(txt, MatchGroupsAt(txt, pos, sizes), sizes)
    ELSE GroupMatches(txt, pos + 1, sizes)

RE_NHS == <<3, 3, 4>>
RE_SSN == <<3, 2, 4>>

Str_nhs_number == <<"n", "h", "s", "_", "n", "u", "m", "b", "e", "r">>
Str_ssn_us == <<"s", "s", "n", "_", "u", "s">>
Str_iban == <<"i", "b", "a", "n">>

\* sum(int(d[i]) * weights[i] for i in range(9)) with weights 10..2, from
\* position i on.
RECURSIVE NhsTotal(_, _)
NhsTotal(d, i) ==
    IF i > 9 THEN 0 ELSE PyInt(<<d[i]>>) * (11 - i) + NhsTotal(d, i + 1)

\* The mod-11 branch of NHSNumberDetector.detect
NhsValid(d) ==
    LET remainder == NhsTotal(d, 1) % 11
        check == IF 11 - remainder = 11 THEN 0 ELSE 11 - remainder
    IN  check # 10 /\ check = PyInt(<<d[10]>>)

NhsFindingAt(txt, sp) ==
    LET raw == PySlice(txt, sp[1], sp[2])
        d == digits_only(raw)
    IN  IF Len(d) # 10 THEN <<>>
        ELSE <<Finding(Str_nhs_number, raw, sp, IF NhsValid(d) THEN 92 ELSE 40, Some(d),
                       [valid |-> PyBool(NhsValid(d)), reason |-> PyNone])>>

RECURSIVE NhsFindings(_, _)
NhsFindings(txt, spans) ==
    IF spans = <<>> THEN <<>>
    ELSE NhsFindingAt(txt, Head(spans)) \o NhsFindings(txt, Tail(spans))

\* NHSNumberDetector.detect
NHSNumberDetector_detect(txt) == NhsFindings(txt, GroupMatches(txt, 0, RE_NHS))

\* The exclusions branch of USSSNDetector.detect; area, group and serial are
\* strings of digits here, so that the string comparison "900" <= area is
\* the comparison of the numbers.
SsnValid(d) ==
    LET area == PyTo(d, 3)
        group == PySlice(d, 3, 5)
        serial == PyFrom(d, 5)
    IN  IF area = <<"0", "0", "0">> \/ area = <<"6", "6", "6">>
           \/ (900 <= PyInt(area) /\ PyInt(area) <= 999)
        THEN FALSE
        ELSE IF group = <<"0", "0">> \/ serial = <<"0", "0", "0", "0">> THEN FALSE
        ELSE TRUE

SsnFindingAt(txt, sp) ==
    LET raw == PySlice(txt, sp[1], sp[2])
        d == digits_only(raw)
    IN  IF Len(d) # 9 THEN <<>>
        ELSE <<Finding(Str_ssn_us, raw, sp, IF SsnValid(d) THEN 90 ELSE 40, Some(d),
                       [valid |-> PyBool(SsnValid(d)), reason |-> PyNone])>>

RECURSIVE SsnFindings(_, _)
SsnFindings(txt, spans) ==
    IF spans = <<>> THEN <<>>
    ELSE SsnFindingAt(txt, Head(spans)) \o SsnFindings(txt, Tail(spans))

\* USSSNDetector.detect
USSSNDetector_detect(txt) == SsnFindings(txt, GroupMatches(txt, 0, RE_SSN))

\* The end of the run of [A-Z0-9], case ignored, that starts at offset p.
RECURSIVE AlnumRunEnd(_, _)
AlnumRunEnd(txt, p) ==
    IF p < Len(txt) /\ IsAlnum(txt[p + 1]) THEN AlnumRunEnd(txt, p + 1) ELSE p

MinIbanTail == 11
MaxIbanTail == 30

\* RE_IBAN at offset p: \b, two letters, two digits, 11 to 30 letters or
\* digits, \b. The closing \b holds only at the end of the whole run of
\* letters and digits, so a run longer than 30 gives no match.
MatchIbanAt(txt, p) ==
    IF /\ AtWordBoundary(txt, p)
       /\ p + 4 <= Len(txt)
       /\ IsAlpha(txt[p + 1]) /\ IsAlpha(txt[p + 2])
       /\ IsDigit(txt[p + 3]) /\ IsDigit(txt[p + 4])
       /\ AlnumRunEnd(txt, p + 4) - (p + 4) >= MinIbanTail
       /\ AlnumRunEnd(txt, p + 4) - (p + 4) <= MaxIbanTail
       /\ AtWordBoundary(txt, AlnumRunEnd(txt, p + 4))
    THEN AlnumRunEnd(txt, p + 4)
    ELSE -1

RECURSIVE IbanMatches(_, _)
IbanMatches(txt, pos) ==
    IF pos >= Len(txt) THEN <<>>
    ELSE IF MatchIbanAt(txt, pos) >= 0
    THEN <<<<pos, MatchIbanAt(txt, pos)>>>> \o IbanMatches(txt, MatchIbanAt(txt, pos))
    ELSE IbanMatches(txt, pos + 1)

\* "".join(str(ord(c) - 55) if c.isalpha() else c for c in s), s in upper
\* case: a letter becomes the two digits of 10..35.
RECURSIVE IbanNumeric(_)
IbanNumeric(s) ==
    IF s = <<>> THEN <<>>
    ELSE (IF IsAlpha(Head(s))
          THEN <<Digits[((PyOrd(Head(s)) - 55) \div 10) + 1],
                 Digits[((PyOrd(Head(s)) - 55) % 10) + 1]>>
          ELSE <<Head(s)>>)
         \o IbanNumeric(Tail(s))

\* Mutant: the remainder is 1 whatever the digits are.
Mod97_always_one(num, rem) == 1

\* The remainder loop of iban_check, one digit per step:
\* remainder = (remainder*10 + ord(ch)-48) % 97
RECURSIVE Mod97(_, _)
Mod97(num, rem) ==
    IF num = <<>> THEN rem
    ELSE Mod97(Tail(num), (rem * 10 + PyOrd(Head(num)) - 48) % 97)

\* int(ds) for at most six decimal digits
RECURSIVE SmallInt(_, _)
SmallInt(ds, acc) ==
    IF ds = <<>> THEN acc
    ELSE SmallInt(Tail(ds), acc * 10 + PyOrd(Head(ds)) - 48)

\* int(ds) of a string of decimal digits: the integer as its limbs in base
\* 10^6 (six digits each), the most significant first: Python integers have
\* no fixed width.
RECURSIVE IntOf(_)
IntOf(ds) ==
    IF Len(ds) <= 6 THEN <<SmallInt(ds, 0)>>
    ELSE IntOf(SubSeq(ds, 1, Len(ds) - 6))
         \o <<SmallInt(SubSeq(ds, Len(ds) - 5, Len(ds)), 0)>>

\* n % 97 for an integer n given by its limbs: the long division, limb by limb.
RECURSIVE LimbsMod97(_, _)
LimbsMod97(limbs, r) ==
    IF limbs = <<>> THEN r
    ELSE LimbsMod97(Tail(limbs), (r * 1000000 + Head(limbs)) % 97)

\* str(rem) for 0 <= rem < 97
StrOfRem(rem) ==
    IF rem < 10 THEN <<Digits[rem + 1]>>
    ELSE <<Digits[(rem \div 10) + 1], Digits[(rem % 10) + 1]>>

\* Digits taken per step by _mod97.
ChunkLen == 9

\* Mutant: the remainder of the chunks before is not carried over.
ChunkRemainder_uncarried(rem, chunk) == LimbsMod97(IntOf(chunk), 0)

\* int(str(rem) + num[i:i+9]) % 97
ChunkRemainder(rem, chunk) == LimbsMod97(IntOf(StrOfRem(rem) \o chunk), 0)

\* The loop of _mod97: for i in range(0, len(num), 9)
RECURSIVE ChunkedMod97(_, _)
ChunkedMod97(num, rem) ==
    IF num = <<>> THEN rem
    ELSE ChunkedMod97(PyFrom(num, ChunkLen), ChunkRemainder(rem, PyTo(num, ChunkLen)))

\* _mod97 of IBANDetector.detect
IbanDetectorMod97(s) == ChunkedMod97(IbanNumeric(PyFrom(s, 4) \o PyTo(s, 4)), 0)

IbanFindingAt(txt, sp) ==
    LET raw == PySlice(txt, sp[1], sp[2])
        canon == PyUpper(raw)
        country == PyTo(canon, 2)
        valid == /\ \A i \in 1..Len(country) : IsAlpha(country[i])
                 /\ IsDigitStr(PySlice(canon, 2, 4))
                 /\ IbanDetectorMod97(canon) = 1
    IN  <<Finding(Str_iban, raw, sp, IF valid THEN 95 ELSE 50, Some(canon),
                  [valid |-> PyBool(valid), country |-> Val("str", country),
                   reason |-> PyNone])>>

RECURSIVE IbanFindings(_, _)
IbanFindings(txt, spans) ==
    IF spans = <<>> THEN <<>>
    ELSE IbanFindingAt(txt, Head(spans)) \o IbanFindings(txt, Tail(spans))

\* IBANDetector.detect
IBANDetector_detect(txt) == IbanFindings(txt, IbanMatches(txt, 0))

----------------------------------------------------------------------------
(* detectors/registry.py: DetectorRegistry.scan                              *)

\* A detector of a registry: its name and what its detect does.
Detector(name, behaviour) == [name |-> name, behaviour |-> behaviour]

Str_boom == <<"b", "o", "o", "m">>

\* What detect or its generator raised: the class and str(e).
Raised(class, message) == [class |-> class, message |-> message]

\* One finding per character of txt, from the last character to the first.
RECURSIVE CharsBackwards(_, _, _)
CharsBackwards(kind, txt, n) ==
    IF n = 0 THEN <<>>
    ELSE <<Finding(kind, <<txt[n]>>, <<n - 1, n>>, 50, None, NoExtras)>>
         \o CharsBackwards(kind, txt, n - 1)

\* d.detect(txt) as scan consumes it: the findings yielded, and what the call
\* or the generator then raised, if anything.
\*   "email":  EmailDetector
\*   "silent": a built-in detector that needs a digit or a token of 24
\*             characters to emit anything; the texts of the model have neither
\*   "raises": detect raises at once (tests/test_registry.py, _BrokenDetector)
\*   "interrupts": detect raises KeyboardInterrupt, which is no Exception
\*   "yields_then_raises": a generator that yields a finding for the whole
\*             text and then raises
\*   "twice":  returns two findings with the span of the whole text, told
\*             apart by their confidence (tests/test_registry.py,
\*             _StaticDetector)
\*   "backwards": a generator that yields one finding per character, from the
\*             end of the text to its start
Detect(d, txt) ==
    IF d.behaviour = "email"
    THEN [yielded |-> EmailDetector_detect(txt), raised |-> None]
    ELSE IF d.behaviour = "raises"
    THEN [yielded |-> <<>>, raised |-> Some(Raised("RuntimeError", Str_boom))]
    ELSE IF d.behaviour = "interrupts"
    THEN [yielded |-> <<>>, raised |-> Some(Raised("KeyboardInterrupt", <<>>))]
    ELSE IF d.behaviour = "yields_then_raises"
    THEN [yielded |-> <<Finding(d.name, txt, <<0, Len(txt)>>, 50, None, NoExtras)>>,
          raised |-> Some(Raised("RuntimeError", Str_boom))]
    ELSE IF d.behaviour = "twice"
    THEN [yielded |-> <<Finding(d.name, txt, <<0, Len(txt)>>, 10, None, NoExtras),
                        Finding(d.name, txt, <<0, Len(txt)>>, 20, None, NoExtras)>>,
          raised |-> None]
    ELSE IF d.behaviour = "backwards"
    THEN [yielded |-> CharsBackwards(d.name, txt, Len(txt)), raised |-> None]
    ELSE [yielded |-> <<>>, raised |-> None]

\* Mutant: the except clause catches nothing.
IsException_catches_nothing(class) == FALSE

\* except Exception: the classes derived from Exception. KeyboardInterrupt,
\* SystemExit and GeneratorExit derive from BaseException only.
IsException(class) == class \in {"RuntimeError", "ValueError", "KeyError"}

Str_error == <<"e", "r", "r", "o", "r">>

\* The finding scan records for a detector that raised.
ErrorFinding(d, e) ==
    Finding(Str_error, d.name, <<0, 0>>, 0, None,
            [error |-> Val("str", e.message)])

\* The loop of scan: findings.extend(d.detect(text)) keeps what the detector
\* yielded before it raised; an Exception is caught and the error finding
\* appended, anything else leaves the loop and scan. acc holds the findings
\* list, the detectors invoked so far and the exception that left the loop.
\* One turn of the loop of scan, acc being the state of the loop before it.
CollectStep(d, txt, acc) ==
    With(Detect(d, txt), LAMBDA r :
        LET called == Append(acc.invoked, d)
        IN  IF IsNone(r.raised)
            THEN [acc EXCEPT !.findings = @ \o r.yielded, !.invoked = called]
            ELSE IF IsException(Get(r.raised).class)
            THEN [acc EXCEPT !.findings = @ \o r.yielded
                                           \o <<ErrorFinding(d, Get(r.raised))>>,
                             !.invoked = called]
            ELSE [acc EXCEPT !.findings = @ \o r.yielded, !.invoked = called,
                             !.propagated = Some(Get(r.raised).class)])

RECURSIVE Collect(_, _, _)
Collect(ds, txt, acc) ==
    IF ds = <<>> THEN acc
    ELSE With(CollectStep(Head(ds), txt, acc), LAMBDA a :
            IF IsNone(a.propagated) THEN Collect(Tail(ds), txt, a) ELSE a)

\* Mutant: the comparison is strict, so that a finding goes before the
\* findings of equal span already placed.
SpanLeq_strict(x, y) ==
    \/ x.span[1] < y.span[1]
    \/ (x.span[1] = y.span[1] /\ x.span[2] < y.span[2])

\* (f.span[0], f.span[1]) of x is at most that of y.
SpanLeq(x, y) ==
    \/ x.span[1] < y.span[1]
    \/ (x.span[1] = y.span[1] /\ x.span[2] <= y.span[2])

\* sorted(findings, key=lambda f: (f.span[0], f.span[1])): stable, ascending.
RECURSIVE InsertBySpan(_, _)
InsertBySpan(x, sorted) ==
    IF sorted = <<>> THEN <<x>>
    ELSE IF SpanLeq(Head(sorted), x)
         THEN <<Head(sorted)>> \o InsertBySpan(x, Tail(sorted))
         ELSE <<x>> \o sorted

\* The first n findings of fs, sorted.
RECURSIVE SortedPrefixBySpan(_, _)
SortedPrefixBySpan(fs, n) ==
    IF n = 0 THEN <<>>
    ELSE With(SortedPrefixBySpan(fs, n - 1), LAMBDA sorted : InsertBySpan(fs[n], sorted))

SortedBySpan(fs) == SortedPrefixBySpan(fs, Len(fs))

\* DetectorRegistry.scan: the sorted findings when the loop ran to its end,
\* the exception that left it otherwise.
scan(ds, txt) ==
    With(Collect(ds, txt, [findings |-> <<>>, invoked |-> <<>>, propagated |-> None]),
         LAMBDA c :
            IF IsNone(c.propagated)
            THEN [status |-> "ok", findings |-> SortedBySpan(c.findings), invoked |-> c.invoked]
            ELSE [status |-> Get(c.propagated), findings |-> <<>>, invoked |-> c.invoked])

\* DetectorRegistry.default()
DefaultRegistry ==
    <<Detector(Email, "email"),
      Detector(Phone, "silent"),
      Detector(<<"c", "r", "e", "d", "i", "t", "_", "c", "a", "r", "d">>, "silent"),
      Detector(<<"n", "h", "s", "_", "n", "u", "m", "b", "e", "r">>, "silent"),
      Detector(<<"s", "s", "n", "_", "u", "s">>, "silent"),
      Detector(<<"i", "b", "a", "n">>, "silent"),
      Detector(<<"h", "i", "g", "h", "_", "e", "n", "t", "r", "o", "p", "y", "_", "t", "o", "k", "e", "n">>, "silent")>>

----------------------------------------------------------------------------
(* Specification of one scan of a registry                                   *)

MaxWords == 2
MaxDetectors == 2

\* The pieces the texts of the detection specifications are made of.
Words ==
    {<<"a", "@", "b", ".", "c">>,
     <<"@", "d", ".", "e">>,
     <<" ">>,
     <<"a">>,
     <<"-">>}

RECURSIVE Concat(_)
Concat(ws) == IF ws = <<>> THEN <<>> ELSE Head(ws) \o Concat(Tail(ws))

WordTexts == {Concat(ws) : ws \in SeqsUpTo(Words, MaxWords)}

ScanDetectors ==
    {Detector(Email, "email"),
     Detector(<<"b", "r", "o", "k", "e", "n">>, "raises"),
     Detector(<<"p", "a", "r", "t", "i", "a", "l">>, "yields_then_raises"),
     Detector(<<"s", "t", "o", "p">>, "interrupts"),
     Detector(<<"s", "t", "a", "t", "i", "c">>, "twice"),
     Detector(<<"b", "a", "c", "k">>, "backwards")}

InitScan ==
    /\ text \in WordTexts
    /\ detectors \in SeqsUpTo(ScanDetectors, MaxDetectors)
    /\ findings = <<>>
    /\ log = <<>>
    /\ pc = "ready"
    /\ policy = Unused
    /\ out = Unused
    /\ doc = Unused
    /\ prev = Unused
    /\ arg = Unused
    /\ ret = Unused

\* registry.scan(text) returns; log holds the detectors it invoked.
ScanReturns ==
    /\ pc = "ready"
    /\ \E r \in {scan(detectors, text)} :
            /\ r.status = "ok"
            /\ findings' = r.findings
            /\ log' = r.invoked
    /\ pc' = "scanned"
    /\ UNCHANGED <<text, policy, out, doc, detectors, prev, arg, ret>>

\* registry.scan(text) lets an exception through to its caller.
ScanPropagates ==
    /\ pc = "ready"
    /\ \E r \in {scan(detectors, text)} :
            /\ r.status # "ok"
            /\ log' = r.invoked
    /\ pc' = "propagated"
    /\ UNCHANGED <<text, findings, policy, out, doc, detectors, prev, arg, ret>>

NextScan == ScanReturns \/ ScanPropagates

SpecScan == InitScan /\ [][NextScan]_vars

\* C10: every finding f returned by scan(text) has
\* 0 <= f.span[0] <= f.span[1] <= len(text) and
\* text[f.span[0]:f.span[1]] == f.value, also when a detector raised during
\* the scan.
C10_SpanFidelity ==
    pc = "scanned" =>
        \A i \in 1..Len(findings) :
            /\ 0 <= findings[i].span[1]
            /\ findings[i].span[1] <= findings[i].span[2]
            /\ findings[i].span[2] <= Len(text)
            /\ PySlice(text, findings[i].span[1], findings[i].span[2]) = findings[i].value

\* The detectors of the registry whose detect raised, by position.
RaisedAt(i) == ~IsNone(Detect(detectors[i], text).raised)

\* The findings the detectors at the positions in keep yielded, in
\* registration order and, within a detector, in the order of emission.
RECURSIVE YieldedFrom(_, _)
YieldedFrom(i, keep) ==
    IF i > Len(detectors) THEN <<>>
    ELSE (IF i \in keep THEN Detect(detectors[i], text).yielded ELSE <<>>)
         \o YieldedFrom(i + 1, keep)

Completed == {i \in 1..Len(detectors) : ~RaisedAt(i)}

WithSpan(fs, sp) == SelectSeq(fs, LAMBDA f : f.span = sp /\ f.kind # Str_error)

\* C12: in the result of scan, findings with equal (start, end) appear in the
\* registration order of the detectors that produced them, and findings with
\* equal span from one detector keep the order in which it emitted them.
C12_TiesKeepRegistrationOrder ==
    pc = "scanned" =>
        \A i \in 1..Len(findings) :
            WithSpan(findings, findings[i].span)
                = WithSpan(YieldedFrom(1, 1..Len(detectors)), findings[i].span)

C12_Witness ==
    /\ pc = "scanned"
    /\ \E i, j, k \in 1..Len(findings) :
        /\ i < j /\ j < k
        /\ findings[i].span = findings[j].span
        /\ findings[j].span = findings[k].span
        /\ findings[i].kind # findings[j].kind
        /\ findings[j].kind = findings[k].kind
        /\ findings[j].confidence < findings[k].confidence
        /\ findings[i].kind # Str_error

\* What C13 promises once some detector has raised: scan returns, every
\* registered detector was invoked, and every finding of a detector that did
\* not raise is in the result.
FailureIsIsolated ==
    /\ pc = "scanned"
    /\ log = detectors
    /\ \A i \in Completed :
        \A k \in 1..Len(Detect(detectors[i], text).yielded) :
            \E m \in 1..Len(findings) : findings[m] = Detect(detectors[i], text).yielded[k]

\* C13 as stated: if any detector raises during scan(text), scan still
\* returns normally, every other registered detector is still invoked, and
\* every finding of the detectors that did not raise is in the result.
C13_AnyRaiseIsIsolated ==
    (pc # "ready" /\ \E i \in 1..Len(detectors) : RaisedAt(i)) => FailureIsIsolated

\* C13 amended: the same, for detectors that raise an exception derived from
\* Exception.
C13_ExceptionIsIsolated ==
    (/\ pc # "ready"
     /\ \E i \in 1..Len(detectors) : RaisedAt(i)
     /\ \A i \in 1..Len(detectors) :
            RaisedAt(i) => Get(Detect(detectors[i], text).raised).class = "RuntimeError")
        => FailureIsIsolated

C13_Witness ==
    /\ pc = "scanned"
    /\ Len(detectors) = 2
    /\ RaisedAt(1)
    /\ ~RaisedAt(2)
    /\ Detect(detectors[2], text).yielded # <<>>
    /\ log = detectors

\* C14: a detector that raises contributes no entry to the result of scan:
\* the returned list is exactly the sorted findings of the detectors that
\* completed without raising.
C14_RaisingDetectorContributesNothing ==
    pc = "scanned" => findings = SortedBySpan(YieldedFrom(1, Completed))

\* C15: if a detector yields findings and then raises before finishing
\* detect(text), none of the findings it yielded appears in the result of
\* scan.
C15_NoPartialFindings ==
    pc = "scanned" =>
        \A i \in 1..Len(detectors) :
            RaisedAt(i) =>
                \A k \in 1..Len(Detect(detectors[i], text).yielded) :
                    \A m \in 1..Len(findings) :
                        findings[m] # Detect(detectors[i], text).yielded[k]

----------------------------------------------------------------------------
(* Specification of apply (redactable/__init__.py) run on a text and then    *)
(* on its own output, with a redact-only policy                              *)

ApplyRules ==
    {Rule("r", Email, "redact"),
     [Rule("r", Email, "redact") EXCEPT !.replacement = Some(Tpl_X)],
     Rule("r", Phone, "redact")}

InitApply ==
    /\ text \in WordTexts
    /\ policy \in SeqsUpTo(ApplyRules, MaxRules)
    /\ detectors = DefaultRegistry
    /\ findings = <<>>
    /\ out = <<>>
    /\ log = <<>>
    /\ pc = "ready"
    /\ prev = None
    /\ doc = Unused
    /\ arg = Unused
    /\ ret = Unused

\* apply(data, policy) with a Policy instance: scan with the default
\* registry, then apply_policy.
ApplyReturns ==
    /\ pc = "ready"
    /\ \E sc \in {scan(detectors, text)} :
       \E r \in {apply_policy(policy, sc.findings, text)} :
            /\ sc.status = "ok"
            /\ r.status = "ok"
            /\ findings' = sc.findings
            /\ out' = r.out
            /\ log' = r.log
    /\ pc' = "applied"
    /\ UNCHANGED <<text, policy, doc, detectors, prev, arg, ret>>

\* The caller passes the output of apply to apply again.
ApplyToOutput ==
    /\ pc = "applied"
    /\ IsNone(prev)
    /\ prev' = Some([text |-> text, findings |-> findings, out |-> out])
    /\ text' = out
    /\ pc' = "ready"
    /\ UNCHANGED <<findings, policy, out, log, doc, detectors, arg, ret>>

NextApply == ApplyReturns \/ ApplyToOutput

SpecApply == InitApply /\ [][NextApply]_vars

\* C9: re-running detection and apply with the same redact-only policy on the
\* output of a previous apply yields that output unchanged: the placeholder a
\* redact rule wrote is not detected again as the kind it replaced.
C9_RedactIsIdempotent ==
    (pc = "applied" /\ ~IsNone(prev)) => out = Get(prev).out

----------------------------------------------------------------------------
(* Specification of one detect call of a checksum detector of the default    *)
(* registry (detectors/regexes.py)                                           *)

\* The pieces of the texts: card numbers that pass and fail the Luhn check,
\* social security numbers, NHS numbers and IBANs that pass and fail their
\* validation, with and without separators.
ChecksumWords ==
    {<<"4", "2", "2", "2", "2", "2", "2", "2", "2", "2", "2", "2", "2">>,
     <<"4", "2", "2", "2", "2", "2", "2", "2", "2", "2", "2", "2", "3">>,
     <<"4", "2", "2", "2", " ", "2", "2", "2", "2", " ", "2", "2", "2", "2", " ", "2">>,
     <<"0", "7", "8", "0", "5", "1", "1", "2", "0">>,
     <<"0", "0", "0", "0", "0", "0", "0", "0", "0">>,
     <<"0", "7", "8", "-", "0", "5", "-", "1", "1", "2", "0">>,
     <<"9", "4", "3", "4", "7", "6", "5", "9", "1", "9">>,
     <<"9", "4", "3", "4", "7", "6", "5", "9", "1", "8">>,
     <<"N", "O", "9", "3", "8", "6", "0", "1", "1", "1", "1", "7", "9", "4", "7">>,
     <<"N", "O", "9", "3", "8", "6", "0", "1", "1", "1", "1", "7", "9", "4", "8">>,
     <<" ">>,
     <<"x">>}

ChecksumTexts == {Concat(ws) : ws \in SeqsUpTo(ChecksumWords, MaxWords)}

InitChecksum ==
    /\ text \in ChecksumTexts
    /\ findings = <<>>
    /\ pc = "ready"
    /\ policy = Unused
    /\ out = Unused
    /\ log = Unused
    /\ doc = Unused
    /\ detectors = Unused
    /\ prev = Unused
    /\ arg = Unused
    /\ ret = Unused

\* list(CreditCardDetector().detect(text))
CreditCardDetects ==
    /\ pc = "ready"
    /\ findings' = CreditCardDetector_detect(text)
    /\ pc' = "credit_card"
    /\ UNCHANGED <<text, policy, out, log, doc, detectors, prev, arg, ret>>

\* list(NHSNumberDetector().detect(text))
NHSNumberDetects ==
    /\ pc = "ready"
    /\ findings' = NHSNumberDetector_detect(text)
    /\ pc' = "nhs_number"
    /\ UNCHANGED <<text, policy, out, log, doc, detectors, prev, arg, ret>>

\* list(USSSNDetector().detect(text))
USSSNDetects ==
    /\ pc = "ready"
    /\ findings' = USSSNDetector_detect(text)
    /\ pc' = "ssn_us"
    /\ UNCHANGED <<text, policy, out, log, doc, detectors, prev, arg, ret>>

\* list(IBANDetector().detect(text))
IBANDetects ==
    /\ pc = "ready"
    /\ findings' = IBANDetector_detect(text)
    /\ pc' = "iban"
    /\ UNCHANGED <<text, policy, out, log, doc, detectors, prev, arg, ret>>

NextChecksum == CreditCardDetects \/ NHSNumberDetects \/ USSSNDetects \/ IBANDetects

SpecChecksum == InitChecksum /\ [][NextChecksum]_vars

\* The digit characters of s, in their order.
TrueDigits(s) == SelectSeq(s, IsDigit)

\* The Luhn check of a string of digits.
LuhnPasses(d) == LuhnTotal(d, Len(d), FALSE) % 10 = 0

FindingsAt(sp) == {k \in 1..Len(findings) : findings[k].span = sp}

\* C16: the credit-card detector of the default registry emits exactly one
\* finding for a candidate of 13 to 19 digits whose digits pass the Luhn
\* check, and no finding for a candidate whose digits fail it.
C16_LuhnDecidesEmission ==
    pc = "credit_card" =>
        \A i \in 1..Len(CardMatches(text, 0, "boundary")) :
            LET sp == CardMatches(text, 0, "boundary")[i]
                d == TrueDigits(PySlice(text, sp[1], sp[2]))
            IN  (MinCardUnits <= Len(d) /\ Len(d) <= MaxCardUnits) =>
                    Cardinality(FindingsAt(sp)) = (IF LuhnPasses(d) THEN 1 ELSE 0)

\* The validators C19 names, on the digits (the letters and digits, for an
\* IBAN) of a candidate.
ValidatorPasses(kind, value) ==
    IF kind = Str_nhs_number THEN Len(TrueDigits(value)) = 10 /\ NhsValid(TrueDigits(value))
    ELSE IF kind = Str_ssn_us THEN Len(TrueDigits(value)) = 9 /\ SsnValid(TrueDigits(value))
    ELSE IbanDetectorMod97(PyUpper(value)) = 1

\* C19: each of the IBAN, NHS-number and SSN detectors of the default
\* registry emits a finding for a candidate only if its validator passes; a
\* candidate that fails validation produces no finding.
C19_OnlyValidCandidatesAreReported ==
    pc \in {"nhs_number", "ssn_us", "iban"} =>
        \A k \in 1..Len(findings) : ValidatorPasses(findings[k].kind, findings[k].value)

----------------------------------------------------------------------------
(* Specification of one digits_only call (detectors/base.py)                 *)

MaxDigitStrLen == 3

DigitStrChars == {"1", "2", " ", "-", "\\", "D"}

InitDigits ==
    /\ arg \in SeqsUpTo(DigitStrChars, MaxDigitStrLen)
    /\ ret = <<>>
    /\ pc = "ready"
    /\ text = Unused
    /\ findings = Unused
    /\ policy = Unused
    /\ out = Unused
    /\ log = Unused
    /\ doc = Unused
    /\ detectors = Unused
    /\ prev = Unused

\* digits_only(arg) returns.
DigitsOnlyReturns ==
    /\ pc = "ready"
    /\ ret' = digits_only(arg)
    /\ pc' = "returned"
    /\ UNCHANGED <<text, findings, policy, out, log, doc, detectors, prev, arg>>

NextDigits == DigitsOnlyReturns

SpecDigits == InitDigits /\ [][NextDigits]_vars

\* C17: digits_only(s) returns exactly the digit characters of s in their
\* order, so that a digit-based validator gives a candidate written with
\* spaces or hyphens the verdict of its digits.
C17_DigitsOnlyKeepsExactlyDigits ==
    pc = "returned" => ret = TrueDigits(arg)

----------------------------------------------------------------------------
(* detectors/utils.py: iban_check, and the specification of one check of an  *)
(* IBAN and of the same IBAN with one character replaced                     *)

\* _IBAN_LEN
IbanLen ==
    {<<<<"G", "B">>, 22>>, <<<<"D", "E">>, 22>>, <<<<"F", "R">>, 27>>, <<<<"E", "S">>, 24>>,
     <<<<"I", "T">>, 27>>, <<<<"N", "L">>, 18>>, <<<<"B", "E">>, 16>>, <<<<"C", "H">>, 21>>,
     <<<<"I", "E">>, 22>>, <<<<"P", "L">>, 28>>}

IsUpper(c) == c \in Range(UpperChars)

\* _IBAN_RE.match(iban): two capitals, two digits and 11 to 30 capitals or
\* digits up to the end of the string.
IbanReMatches(s) ==
    /\ Len(s) >= 4 + MinIbanTail
    /\ Len(s) <= 4 + MaxIbanTail
    /\ IsUpper(s[1]) /\ IsUpper(s[2])
    /\ IsDigit(s[3]) /\ IsDigit(s[4])
    /\ \A i \in 5..Len(s) : IsUpper(s[i]) \/ IsDigit(s[i])

iban_check(iban) ==
    LET s == PyUpper(SelectSeq(iban, LAMBDA c : c # " "))
        country == PyTo(s, 2)
    IN  IF ~IbanReMatches(s) THEN FALSE
        ELSE IF \E e \in IbanLen : e[1] = country /\ Len(s) # e[2] THEN FALSE
        ELSE Mod97(IbanNumeric(PyFrom(s, 4) \o PyTo(s, 4)), 0) = 1

\* IBANs the check accepts (Norway, Belgium, the Netherlands).
ValidIbans ==
    {<<"N", "O", "9", "3", "8", "6", "0", "1", "1", "1", "1", "7", "9", "4", "7">>,
     <<"B", "E", "6", "8", "5", "3", "9", "0", "0", "7", "5", "4", "7", "0", "3", "4">>,
     <<"N", "L", "9", "1", "A", "B", "N", "A", "0", "4", "1", "7", "1", "6", "4", "3", "0", "0">>}

\* The IBAN alphabet
IbanChars == Range(Digits) \cup Range(UpperChars)

\* iban with the character at position pos replaced by ch
Edited(a) == [a.iban EXCEPT ![a.pos] = a.ch]

InitIban ==
    /\ arg \in {a \in [iban : ValidIbans, pos : 1..18, ch : IbanChars] : a.pos <= Len(a.iban)}
    /\ ret = <<>>
    /\ pc = "ready"
    /\ text = Unused
    /\ findings = Unused
    /\ policy = Unused
    /\ out = Unused
    /\ log = Unused
    /\ doc = Unused
    /\ detectors = Unused
    /\ prev = Unused

\* iban_check on the IBAN and on the edited IBAN, and IBANDetector.detect on
\* the edited IBAN.
IbanChecks ==
    /\ pc = "ready"
    /\ ret' = [original |-> iban_check(arg.iban),
               edited |-> iban_check(Edited(arg)),
               detected |-> IBANDetector_detect(Edited(arg))]
    /\ pc' = "checked"
    /\ UNCHANGED <<text, findings, policy, out, log, doc, detectors, prev, arg>>

NextIban == IbanChecks

SpecIban == InitIban /\ [][NextIban]_vars

\* The edited IBAN is accepted: by iban_check, or by the detector as a valid
\* IBAN.
EditAccepted ==
    \/ ret.edited
    \/ \E k \in 1..Len(ret.detected) : ret.detected[k].extras.valid = PyTrue

SameClass(c, d) == IsDigit(c) <=> IsDigit(d)

\* C18 as stated: for every IBAN the mod-97 check accepts, replacing any
\* single character by any other character of the IBAN alphabet gives a
\* string the check rejects.
C18_AnySingleEditIsRejected ==
    (pc = "checked" /\ ret.original /\ arg.ch # arg.iban[arg.pos]) => ~EditAccepted

\* C18 amended: replacing a digit by another digit, or a letter by another
\* letter, gives a string the check rejects.
C18_SameClassEditIsRejected ==
    (/\ pc = "checked"
     /\ ret.original
     /\ arg.ch # arg.iban[arg.pos]
     /\ SameClass(arg.ch, arg.iban[arg.pos]))
        => ~EditAccepted

C18_Witness ==
    /\ pc = "checked"
    /\ ret.original
    /\ arg.pos > 4
    /\ IsAlpha(arg.iban[arg.pos])
    /\ IsAlpha(arg.ch)
    /\ arg.ch # arg.iban[arg.pos]
    /\ ~EditAccepted

----------------------------------------------------------------------------
(* The detectors registered in detectors/base.py (email.py, credit_card.py,  *)
(* iban.py, nhs.py, ssn.py, phone.py, entropy.py, schema_hints.py) and       *)
(* run_all (detectors/run.py)                                                *)

\* Match of base.py
Match(label, start, end, value, confidence, meta) ==
    [label |-> label, start |-> start, end |-> end, value |-> value,
     confidence |-> confidence, meta |-> meta]

\* [A-Za-z0-9._%+-]
IsLegacyLocalChar(c) == IsAlnum(c) \/ c \in {".", "_", "%", "+", "-"}

RECURSIVE LegacyLocalRunEnd(_, _)
LegacyLocalRunEnd(txt, p) ==
    IF p < Len(txt) /\ IsLegacyLocalChar(txt[p + 1]) THEN LegacyLocalRunEnd(txt, p + 1) ELSE p

\* The end of the run of [A-Za-z0-9.-] that starts at offset p.
RECURSIVE DomainRunEnd(_, _)
DomainRunEnd(txt, p) ==
    IF p < Len(txt) /\ (IsAlnum(txt[p + 1]) \/ txt[p + 1] \in {".", "-"})
    THEN DomainRunEnd(txt, p + 1) ELSE p

MinTld == 2
MaxTld == 63

\* (?:[A-Za-z0-9-]+\.)+[A-Za-z]{2,63} matching the whole of d: labels that
\* are not empty, and a last label of 2 to 63 letters.
LegacyDomainOk(d) ==
    LET dots == {i \in 1..Len(d) : d[i] = "."}
    IN  /\ dots # {}
        /\ 1 \notin dots
        /\ Len(d) \notin dots
        /\ \A i \in dots : i + 1 \notin dots
        /\ LET last == CHOOSE i \in dots : \A j \in dots : j <= i
           IN  /\ Len(d) - last >= MinTld
               /\ Len(d) - last <= MaxTld
               /\ \A k \in (last + 1)..Len(d) : IsAlpha(d[k])

\* _EMAIL of email.py at offset p: the end of the match or -1. The look-
\* arounds make the local part the whole run of local characters before the
\* at sign, and the domain the whole run of domain characters after it.
MatchLegacyEmailAt(txt, p) ==
    LET at == LegacyLocalRunEnd(txt, p)
        e == DomainRunEnd(txt, at + 1)
    IN  IF /\ ~(p > 0 /\ IsLegacyLocalChar(txt[p]))
           /\ at > p
           /\ at < Len(txt)
           /\ txt[at + 1] = "@"
           /\ ~(e < Len(txt) /\ IsLegacyLocalChar(txt[e + 1]))
           /\ LegacyDomainOk(SubSeq(txt, at + 2, e))
        THEN e
        ELSE -1

RECURSIVE LegacyEmailMatches(_, _)
LegacyEmailMatches(txt, pos) ==
    IF pos >= Len(txt) THEN <<>>
    ELSE IF MatchLegacyEmailAt(txt, pos) >= 0
    THEN <<<<pos, MatchLegacyEmailAt(txt, pos)>>>>
         \o LegacyEmailMatches(txt, MatchLegacyEmailAt(txt, pos))
    ELSE LegacyEmailMatches(txt, pos + 1)

Str_EMAIL == <<"E", "M", "A", "I", "L">>
Str_CREDIT_CARD == <<"C", "R", "E", "D", "I", "T", "_", "C", "A", "R", "D">>
Str_PHONE == <<"P", "H", "O", "N", "E">>
Str_IBAN == <<"I", "B", "A", "N">>
Str_NHS_NUMBER == <<"N", "H", "S", "_", "N", "U", "M", "B", "E", "R">>
Str_SSN == <<"S", "S", "N">>
Str_VISA == <<"V", "I", "S", "A">>
Str_MASTERCARD == <<"M", "A", "S", "T", "E", "R", "C", "A", "R", "D">>
Str_AMEX == <<"A", "M", "E", "X">>
Str_E164 == <<"E", "1", "6", "4">>
Str_UK == <<"U", "K">>

\* EmailDetector.detect of email.py
LegacyEmail_detect(txt) ==
    LET spans == LegacyEmailMatches(txt, 0)
    IN  [i \in 1..Len(spans) |->
            Match(Str_EMAIL, spans[i][1], spans[i][2],
                  PySlice(txt, spans[i][1], spans[i][2]), 95, PyNone)]

\* luhn_check of utils.py
luhn_check(digits) == LuhnTotal(digits, Len(digits), FALSE) % 10 = 0

\* _brand of credit_card.py
_brand(digits) ==
    IF StartsWith(digits, <<"4">>) /\ Len(digits) \in {13, 16, 19} THEN Some(Str_VISA)
    ELSE IF /\ \/ (Len(digits) >= 2 /\ 51 <= PyInt(PyTo(digits, 2)) /\ PyInt(PyTo(digits, 2)) <= 55)
               \/ (Len(digits) >= 4 /\ 2221 <= PyInt(PyTo(digits, 4))
                   /\ PyInt(PyTo(digits, 4)) <= 2720)
            /\ Len(digits) = 16
    THEN Some(Str_MASTERCARD)
    ELSE IF StartsWithAny(digits, {<<"3", "4">>, <<"3", "7">>}) /\ Len(digits) = 15
    THEN Some(Str_AMEX)
    ELSE None

\* The body of the loop of CreditCardDetector.detect of credit_card.py
LegacyCardMatchAt(txt, sp) ==
    LET raw == PySlice(txt, sp[1], sp[2])
        digits == SelectSeq(raw, IsDigit)
        brand == _brand(digits)
    IN  IF MinCardUnits <= Len(digits) /\ Len(digits) <= MaxCardUnits /\ luhn_check(digits)
        THEN <<Match(Str_CREDIT_CARD, sp[1], sp[2], raw,
                     IF IsNone(brand) THEN 92 ELSE 98,
                     [digits |-> Val("str", digits), brand |-> OptVal(brand)])>>
        ELSE <<>>

RECURSIVE LegacyCardFindings(_, _)
LegacyCardFindings(txt, spans) ==
    IF spans = <<>> THEN <<>>
    ELSE LegacyCardMatchAt(txt, Head(spans)) \o LegacyCardFindings(txt, Tail(spans))

\* CreditCardDetector.detect of credit_card.py
LegacyCreditCard_detect(txt) == LegacyCardFindings(txt, CardMatches(txt, 0, "no_digit"))

\* nhs_check of utils.py
nhs_check(n) ==
    LET d == SelectSeq(n, IsDigit)
    IN  IF Len(d) # 10 THEN FALSE ELSE NhsValid(d)

\* The end of the run of white space that starts at offset p.
RECURSIVE AfterSpaces(_, _)
AfterSpaces(txt, p) ==
    IF p >= 0 /\ p < Len(txt) /\ IsSpace(txt[p + 1]) THEN AfterSpaces(txt, p + 1) ELSE p

\* (?:\d\s*){..10} of _NHS from offset p on, n units being matched already:
\* the offset after the tenth digit, or -1.
RECURSIVE NhsUnitsEnd(_, _, _)
NhsUnitsEnd(txt, p, n) ==
    IF p >= Len(txt) \/ ~IsDigit(txt[p + 1]) THEN -1
    ELSE IF n = 9 THEN p + 1
    ELSE NhsUnitsEnd(txt, AfterSpaces(txt, p + 1), n + 1)

\* _NHS of nhs.py at offset p: \b, ten digits each followed by white space,
\* \b. The white space after the last digit is kept when a word character
\* follows it and given back otherwise.
MatchLegacyNhsAt(txt, p) ==
    LET q == NhsUnitsEnd(txt, p, 0)
        s == AfterSpaces(txt, q)
    IN  IF ~AtWordBoundary(txt, p) \/ q < 0 THEN -1
        ELSE IF s > q /\ AtWordBoundary(txt, s) THEN s
        ELSE IF AtWordBoundary(txt, q) THEN q
        ELSE -1

RECURSIVE LegacyNhsMatches(_, _)
LegacyNhsMatches(txt, pos) ==
    IF pos >= Len(txt) THEN <<>>
    ELSE IF MatchLegacyNhsAt(txt, pos) >= 0
    THEN <<<<pos, MatchLegacyNhsAt(txt, pos)>>>>
         \o LegacyNhsMatches(txt, MatchLegacyNhsAt(txt, pos))
    ELSE LegacyNhsMatches(txt, pos + 1)

LegacyNhsFindingAt(txt, sp) ==
    LET raw == PySlice(txt, sp[1], sp[2])
        digits == SelectSeq(raw, IsDigit)
    IN  IF nhs_check(digits)
        THEN <<Finding(Str_NHS_NUMBER, raw, sp, 99, Some(digits), NoExtras)>>
        ELSE <<>>

RECURSIVE LegacyNhsFindings(_, _)
LegacyNhsFindings(txt, spans) ==
    IF spans = <<>> THEN <<>>
    ELSE LegacyNhsFindingAt(txt, Head(spans)) \o LegacyNhsFindings(txt, Tail(spans))

\* NHSDetector.detect of nhs.py
LegacyNhs_detect(txt) == LegacyNhsFindings(txt, LegacyNhsMatches(txt, 0))

\* \d{3}-?\d{2}-?\d{4} of _SSN from offset p on, sizes being the lengths of
\* the groups still to match.
RECURSIVE LegacySsnEnd(_, _, _)
LegacySsnEnd(txt, p, sizes) ==
    IF sizes = <<>> THEN p
    ELSE IF p + Head(sizes) <= Len(txt) /\ IsDigitStr(SubSeq(txt, p + 1, p + Head(sizes)))
    THEN LET q == p + Head(sizes)
         IN  IF Tail(sizes) # <<>> /\ q < Len(txt) /\ txt[q + 1] = "-"
             THEN LegacySsnEnd(txt, q + 1, Tail(sizes))
             ELSE LegacySsnEnd(txt, q, Tail(sizes))
    ELSE -1

\* _SSN of ssn.py at offset p: no digit before, the groups, no digit after.
MatchLegacySsnAt(txt, p) ==
    LET e == LegacySsnEnd(txt, p, RE_SSN)
    IN  IF ~(p > 0 /\ IsDigit(txt[p])) /\ e >= 0 /\ ~(e < Len(txt) /\ IsDigit(txt[e + 1]))
        THEN e ELSE -1

RECURSIVE LegacySsnMatches(_, _)
LegacySsnMatches(txt, pos) ==
    IF pos >= Len(txt) THEN <<>>
    ELSE IF MatchLegacySsnAt(txt, pos) >= 0
    THEN <<<<pos, MatchLegacySsnAt(txt, pos)>>>>
         \o LegacySsnMatches(txt, MatchLegacySsnAt(txt, pos))
    ELSE LegacySsnMatches(txt, pos + 1)

\* _valid_ssn of ssn.py
_valid_ssn(raw) ==
    LET d == SelectSeq(raw, LAMBDA c : c # "-")
    IN  IF Len(d) # 9 THEN FALSE
        ELSE IF PyTo(d, 3) \in {<<"0", "0", "0">>, <<"6", "6", "6">>} \/ d[1] = "9" THEN FALSE
        ELSE IF PySlice(d, 3, 5) = <<"0", "0">> THEN FALSE
        ELSE IF PyFrom(d, 5) = <<"0", "0", "0", "0">> THEN FALSE
        ELSE TRUE

LegacySsnFindingAt(txt, sp) ==
    IF _valid_ssn(PySlice(txt, sp[1], sp[2]))
    THEN <<Finding(Str_SSN, PySlice(txt, sp[1], sp[2]), sp, 95, None, NoExtras)>>
    ELSE <<>>

RECURSIVE LegacySsnFindings(_, _)
LegacySsnFindings(txt, spans) ==
    IF spans = <<>> THEN <<>>
    ELSE LegacySsnFindingAt(txt, Head(spans)) \o LegacySsnFindings(txt, Tail(spans))

\* SSNDetector.detect of ssn.py
LegacySsn_detect(txt) == LegacySsnFindings(txt, LegacySsnMatches(txt, 0))

LegacyIbanFindingAt(txt, sp) ==
    LET token == PyUpper(PySlice(txt, sp[1], sp[2]))
    IN  IF iban_check(token)
        THEN <<Finding(Str_IBAN, token, sp, 98, Some(token),
                       [country |-> Val("str", PyTo(token, 2))])>>
        ELSE <<>>

RECURSIVE LegacyIbanFindings(_, _)
LegacyIbanFindings(txt, spans) ==
    IF spans = <<>> THEN <<>>
    ELSE LegacyIbanFindingAt(txt, Head(spans)) \o LegacyIbanFindings(txt, Tail(spans))

\* IBANDetector.detect of iban.py; _IBAN is the pattern of RE_IBAN.
LegacyIban_detect(txt) == LegacyIbanFindings(txt, IbanMatches(txt, 0))

\* The end of the run of digits that starts at offset p.
RECURSIVE DigitRunEnd(_, _)
DigitRunEnd(txt, p) ==
    IF p < Len(txt) /\ IsDigit(txt[p + 1]) THEN DigitRunEnd(txt, p + 1) ELSE p

MinE164Digits == 9
MaxE164Digits == 15

\* _E164 of phone.py at offset p: no word character before, a plus sign, 9
\* to 15 digits, no word character after; the digits are the whole run.
MatchE164At(txt, p) ==
    LET e == DigitRunEnd(txt, p + 1)
    IN  IF /\ ~(p > 0 /\ IsWordChar(txt[p]))
           /\ p < Len(txt)
           /\ txt[p + 1] = "+"
           /\ e - (p + 1) >= MinE164Digits
           /\ e - (p + 1) <= MaxE164Digits
           /\ ~(e < Len(txt) /\ IsWordChar(txt[e + 1]))
        THEN e
        ELSE -1

\* _UK of phone.py at offset p: no digit before, 0 and then 7 with nine
\* digits or 1 or 2 with eight or nine digits, no digit after; the match is
\* the whole run of digits.
MatchUkAt(txt, p) ==
    LET e == DigitRunEnd(txt, p)
    IN  IF /\ ~(p > 0 /\ IsDigit(txt[p]))
           /\ e - p >= 2
           /\ txt[p + 1] = "0"
           /\ \/ (txt[p + 2] = "7" /\ e - p = 11)
              \/ (txt[p + 2] \in {"1", "2"} /\ e - p \in {10, 11})
        THEN e
        ELSE -1

RECURSIVE E164Matches(_, _)
E164Matches(txt, pos) ==
    IF pos >= Len(txt) THEN <<>>
    ELSE IF MatchE164At(txt, pos) >= 0
    THEN <<<<pos, MatchE164At(txt, pos)>>>> \o E164Matches(txt, MatchE164At(txt, pos))
    ELSE E164Matches(txt, pos + 1)

RECURSIVE UkMatches(_, _)
UkMatches(txt, pos) ==
    IF pos >= Len(txt) THEN <<>>
    ELSE IF MatchUkAt(txt, pos) >= 0
    THEN <<<<pos, MatchUkAt(txt, pos)>>>> \o UkMatches(txt, MatchUkAt(txt, pos))
    ELSE UkMatches(txt, pos + 1)

\* PhoneDetector.detect of phone.py: the loop over _E164 and then the loop
\* over _UK.
LegacyPhone_detect(txt) ==
    LET plus == E164Matches(txt, 0)
        uk == UkMatches(txt, 0)
    IN  [i \in 1..Len(plus) |->
            Finding(Str_PHONE, PySlice(txt, plus[i][1], plus[i][2]), plus[i], 90, None,
                    [format |-> Val("str", Str_E164)])]
        \o
        [i \in 1..Len(uk) |->
            Finding(Str_PHONE, PySlice(txt, uk[i][1], uk[i][2]), uk[i], 85, None,
                    [format |-> Val("str", Str_UK)])]

\* all_detectors(): the registered detectors in the order of their
\* registration when the package is imported.
\*   "entropy": EntropyDetector reports a token of 20 characters or more
\*       whose Shannon entropy is at least 3.5 bits, which takes 12 distinct
\*       characters; the tokens of the texts of the model have 9 at most
\*   "schema_hints": SchemaHintDetector returns [] without a context
LegacyRegistry ==
    <<"entropy", "email", "credit_card", "iban", "nhs", "ssn", "phone", "schema_hints">>

LegacyDetect(name, txt) ==
    CASE name = "email" -> LegacyEmail_detect(txt)
      [] name = "credit_card" -> LegacyCreditCard_detect(txt)
      [] name = "iban" -> LegacyIban_detect(txt)
      [] name = "nhs" -> LegacyNhs_detect(txt)
      [] name = "ssn" -> LegacySsn_detect(txt)
      [] name = "phone" -> LegacyPhone_detect(txt)
      [] name \in {"entropy", "schema_hints"} -> <<>>

\* The loops of run_all: what the detectors yielded, in registry order.
RECURSIVE RunAllCollect(_, _)
RunAllCollect(names, txt) ==
    IF names = <<>> THEN <<>>
    ELSE LegacyDetect(Head(names), txt) \o RunAllCollect(Tail(names), txt)

\* (m.start, m.end) of x is at most that of y.
MatchLeq(x, y) == x.start < y.start \/ (x.start = y.start /\ x.end <= y.end)

RECURSIVE InsertByStart(_, _)
InsertByStart(x, sorted) ==
    IF sorted = <<>> THEN <<x>>
    ELSE IF MatchLeq(Head(sorted), x)
         THEN <<Head(sorted)>> \o InsertByStart(x, Tail(sorted))
         ELSE <<x>> \o sorted

\* matches.sort(key=lambda m: (m.start, m.end))
RECURSIVE SortedPrefixByStart(_, _)
SortedPrefixByStart(ms, n) ==
    IF n = 0 THEN <<>>
    ELSE With(SortedPrefixByStart(ms, n - 1), LAMBDA sorted : InsertByStart(ms[n], sorted))

SortedByStart(ms) == SortedPrefixByStart(ms, Len(ms))

\* hasattr(m, "start"): a Match has the attribute, a Finding has span only.
HasStart(m) == "start" \in DOMAIN m

\* run_all(text): the key of the sort reads m.start of every element, so a
\* Finding in the list makes the sort raise AttributeError.
run_all(txt) ==
    With(RunAllCollect(LegacyRegistry, txt), LAMBDA matches :
        IF \A i \in 1..Len(matches) : HasStart(matches[i])
        THEN [status |-> "ok", matches |-> SortedByStart(matches)]
        ELSE [status |-> "AttributeError", matches |-> <<>>])

----------------------------------------------------------------------------
(* Specification of scan, of run_all and of two detect calls of the phone    *)
(* detector of phone.py on one text                                          *)

LegacyWords ==
    {<<"a", "@", "b", ".", "c", "c">>,
     <<"+", "4", "4", "1", "1", "1", "1", "1", "1", "1", "1", "1">>,
     <<"0", "7", "1", "1", "1", "1", "1", "1", "1", "1", "1", " ">>,
     <<"4", "2", "2", "2", "2", "2", "2", "2", "2", "2", "2", "2", "2">>,
     <<" ">>}

LegacyTexts == {Concat(ws) : ws \in SeqsUpTo(LegacyWords, MaxWords)}

LegacyScanDetectors ==
    {Detector(Email, "email"),
     Detector(<<"s", "t", "a", "t", "i", "c">>, "twice")}

InitLegacy ==
    /\ text \in LegacyTexts
    /\ detectors \in SeqsUpTo(LegacyScanDetectors, MaxDetectors)
    /\ findings = <<>>
    /\ ret = <<>>
    /\ prev = None
    /\ pc = "ready"
    /\ policy = Unused
    /\ out = Unused
    /\ log = Unused
    /\ doc = Unused
    /\ arg = Unused

\* registry.scan(text) returns.
LegacyScanReturns ==
    /\ pc = "ready"
    /\ \E r \in {scan(detectors, text)} :
            /\ r.status = "ok"
            /\ findings' = r.findings
    /\ pc' = "scanned"
    /\ UNCHANGED <<text, policy, out, log, doc, detectors, prev, arg, ret>>

\* run_all(text) returns.
RunAllReturns ==
    /\ pc = "ready"
    /\ \E r \in {run_all(text)} :
            /\ r.status = "ok"
            /\ ret' = r.matches
    /\ pc' = "ran_all"
    /\ UNCHANGED <<text, findings, policy, out, log, doc, detectors, prev, arg>>

\* run_all(text) raises.
RunAllRaises ==
    /\ pc = "ready"
    /\ run_all(text).status # "ok"
    /\ pc' = "run_all_raised"
    /\ UNCHANGED <<text, findings, policy, out, log, doc, detectors, prev, arg, ret>>

\* list(PhoneDetector().detect(text)), a first and a second time.
PhoneDetects ==
    /\ pc \in {"ready", "phone_once"}
    /\ findings' = LegacyPhone_detect(text)
    /\ prev' = IF pc = "ready" THEN None ELSE Some(findings)
    /\ pc' = IF pc = "ready" THEN "phone_once" ELSE "phone_twice"
    /\ UNCHANGED <<text, policy, out, log, doc, detectors, arg, ret>>

NextLegacy == LegacyScanReturns \/ RunAllReturns \/ RunAllRaises \/ PhoneDetects

SpecLegacy == InitLegacy /\ [][NextLegacy]_vars

\* C11: DetectorRegistry.scan(text) and run_all(text) return their findings
\* in non-decreasing order of (start, end), for every detector list and
\* every text.
C11_ResultsAreSortedBySpan ==
    /\ pc = "scanned" =>
        \A i, j \in 1..Len(findings) : i < j => SpanLeq(findings[i], findings[j])
    /\ pc # "run_all_raised"
    /\ pc = "ran_all" =>
        \A i, j \in 1..Len(ret) : i < j => MatchLeq(ret[i], ret[j])

\* C20: within the output of one detector's detect(text) the findings appear
\* in left-to-right order of their start offset, and two calls of detect on
\* the same text return the same sequence.
C20_DetectIsLeftToRightAndRepeatable ==
    /\ pc \in {"phone_once", "phone_twice"} =>
        \A i, j \in 1..Len(findings) : i < j => findings[i].span[1] <= findings[j].span[1]
    /\ pc = "phone_twice" => findings = Get(prev)

----------------------------------------------------------------------------
(* Specification of the construction of one Finding (detectors/base.py)      *)

\* The confidences handed to the constructor reach ConfMargin hundredths
\* below 0 and above 1.
ConfMargin == 60

MinConfidence == 0
MaxConfidence == 100

\* Mutant: the interval is open.
ConfidenceInRange_open(confidence) ==
    MinConfidence < confidence /\ confidence < MaxConfidence

\* 0.0 <= self.confidence <= 1.0, in hundredths
ConfidenceInRange(confidence) ==
    MinConfidence <= confidence /\ confidence <= MaxConfidence

\* Finding(kind, value, span, confidence, normalized, extras): the dataclass
\* __init__ stores the fields and __post_init__ raises ValueError for a
\* confidence out of range and replaces extras None by {}.
Finding_new(a) ==
    IF ~ConfidenceInRange(a.confidence)
    THEN [status |-> "ValueError", finding |-> None]
    ELSE [status |-> "ok",
          finding |-> Some(Finding(a.kind, a.value, a.span, a.confidence, a.normalized,
                                   IF IsNone(a.extras) THEN NoExtras ELSE Get(a.extras)))]

FindingArgs ==
    [kind : {Email}, value : {<<"a">>}, span : {<<0, 1>>},
     confidence : (MinConfidence - ConfMargin)..(MaxConfidence + ConfMargin),
     normalized : {None}, extras : {None, Some([brand |-> Val("str", Visa)])}]

InitFinding ==
    /\ arg \in FindingArgs
    /\ ret = None
    /\ pc = "ready"
    /\ text = Unused
    /\ findings = Unused
    /\ policy = Unused
    /\ out = Unused
    /\ log = Unused
    /\ doc = Unused
    /\ detectors = Unused
    /\ prev = Unused

\* Finding(...) returns the object.
FindingConstructed ==
    /\ pc = "ready"
    /\ Finding_new(arg).status = "ok"
    /\ ret' = Finding_new(arg).finding
    /\ pc' = "constructed"
    /\ UNCHANGED <<text, findings, policy, out, log, doc, detectors, prev, arg>>

\* Finding(...) raises ValueError: the caller gets no object.
FindingRaises ==
    /\ pc = "ready"
    /\ Finding_new(arg).status # "ok"
    /\ pc' = "raised"
    /\ UNCHANGED <<text, findings, policy, out, log, doc, detectors, prev, arg, ret>>

NextFinding == FindingConstructed \/ FindingRaises

SpecFinding == InitFinding /\ [][NextFinding]_vars

\* C21: constructing a Finding succeeds if and only if 0 <= confidence <= 1;
\* with a confidence outside that range construction raises and no Finding
\* object exists.
C21_ConstructedIffConfidenceInUnitInterval ==
    /\ pc = "constructed" =>
        /\ 0 <= arg.confidence /\ arg.confidence <= 100
        /\ ~IsNone(ret)
        /\ Get(ret).confidence = arg.confidence
    /\ pc = "raised" =>
        /\ arg.confidence < 0 \/ arg.confidence > 100
        /\ IsNone(ret)

\* A Finding of confidence exactly 1 was constructed.
C21_Witness ==
    pc = "constructed" /\ arg.confidence = 100 /\ ~IsNone(ret)

----------------------------------------------------------------------------
(* Construction of RuleWhere, MetadataPredicate and Rule from keyword        *)
(* arguments (policy/model.py), followed by apply_policy                     *)

\* re.compile(src) succeeds, for a source over letters, "^", "$", "(", ")",
\* "*" and "[": a "[" is never closed here (unterminated character set), a
\* ")" needs an open group, a "*" needs an item that is neither an anchor nor
\* a repeat, and every group must be closed at the end. item is the last item
\* of the sequence being parsed: "none", "at", "lit" or "rep".
RECURSIVE SreParse(_, _, _)
SreParse(src, depth, item) ==
    IF src = <<>> THEN depth = 0
    ELSE IF Head(src) = "[" THEN FALSE
    ELSE IF Head(src) = "(" THEN SreParse(Tail(src), depth + 1, "none")
    ELSE IF Head(src) = ")" THEN depth > 0 /\ SreParse(Tail(src), depth - 1, "lit")
    ELSE IF Head(src) = "*" THEN item = "lit" /\ SreParse(Tail(src), depth, "rep")
    ELSE IF Head(src) \in {"^", "$"} THEN SreParse(Tail(src), depth, "at")
    ELSE SreParse(Tail(src), depth, "lit")

\* re.compile(src) does not raise re.error.
re_compile(src) == SreParse(src, 0, "none")

\* A source made of a literal with an optional leading ^ and trailing $.
IsSimpleSource(src) ==
    \A i \in 1..Len(src) :
        /\ src[i] \notin {"[", "(", ")", "*"}
        /\ src[i] = "^" => i = 1
        /\ src[i] = "$" => i = Len(src)

\* The pattern re.search runs for a simple source.
CompiledPattern(src) ==
    LET pre == src # <<>> /\ Head(src) = "^"
        post == src # <<>> /\ src[Len(src)] = "$"
    IN  Pattern(pre,
                SubSeq(src, IF pre THEN 2 ELSE 1, IF post THEN Len(src) - 1 ELSE Len(src)),
                post)

\* _validate_regex of an optional source: None passes, a source must compile.
_validate_regex(v) == IsNone(v) \/ re_compile(Get(v))

OptPattern(v) == IF IsNone(v) THEN None ELSE Some(CompiledPattern(Get(v)))

\* MetadataPredicate(equals=..., matches=...): _validate_regex, then _check_any.
MetadataPredicate_new(d) ==
    [ok |-> /\ _validate_regex(d.matches)
            /\ ~(IsNone(d.equals) /\ IsNone(d.matches)),
     pred |-> MetaPred(d.equals, OptPattern(d.matches))]

\* _coerce_metadata: a dict becomes MetadataPredicate(**dict), any other value v
\* becomes MetadataPredicate(equals=v).
_coerce_metadata(value) ==
    IF IsNone(value) THEN [ok |-> TRUE, metadata |-> None]
    ELSE LET made == [key \in DOMAIN Get(value) |->
                        IF Get(value)[key].form = "dict"
                        THEN MetadataPredicate_new(Get(value)[key])
                        ELSE MetadataPredicate_new(
                                [equals |-> Get(value)[key].equals, matches |-> None])]
         IN  [ok |-> \A key \in DOMAIN made : made[key].ok,
              metadata |-> Some([key \in DOMAIN made |-> made[key].pred])]

\* Mutant: the bounds are not compared.
_ensure_any_unordered_bounds(w) ==
    ~ /\ IsNone(w.min_confidence)
      /\ IsNone(w.max_confidence)
      /\ IsNone(w.value_matches)
      /\ IsNone(w.normalized_matches)
      /\ (IsNone(w.metadata) \/ DOMAIN Get(w.metadata) = {})

\* RuleWhere._ensure_any: TRUE when the validator returns, FALSE when it raises.
_ensure_any(w) ==
    /\ ~ /\ IsNone(w.min_confidence)
         /\ IsNone(w.max_confidence)
         /\ IsNone(w.value_matches)
         /\ IsNone(w.normalized_matches)
         /\ (IsNone(w.metadata) \/ DOMAIN Get(w.metadata) = {})
    /\ ~ /\ ~IsNone(w.min_confidence)
         /\ ~IsNone(w.max_confidence)
         /\ Get(w.min_confidence) > Get(w.max_confidence)

\* Field(ge=0.0, le=1.0) of an optional confidence, in tenths.
ConfidenceFieldOk(v) == IsNone(v) \/ (0 <= Get(v) /\ Get(v) <= 10)

\* RuleWhere(**d): the field validators, then _ensure_any.
RuleWhere_new(d) ==
    LET metadata == _coerce_metadata(d.metadata)
        w == [min_confidence |-> d.min_confidence,
              max_confidence |-> d.max_confidence,
              value_matches |-> OptPattern(d.value_matches),
              normalized_matches |-> OptPattern(d.normalized_matches),
              metadata |-> metadata.metadata]
    IN  [ok |-> /\ ConfidenceFieldOk(d.min_confidence)
                /\ ConfidenceFieldOk(d.max_confidence)
                /\ _validate_regex(d.value_matches)
                /\ _validate_regex(d.normalized_matches)
                /\ metadata.ok
                /\ _ensure_any(w),
         where |-> w]

\* Rule(**payload, where=where)
Rule_new(payload, where) ==
    LET r == RuleFromPayload(payload)
        w == IF IsNone(where) THEN [ok |-> TRUE, where |-> None]
             ELSE LET made == RuleWhere_new(Get(where))
                  IN  [ok |-> made.ok, where |-> Some(made.where)]
    IN  [ok |-> r.ok /\ w.ok, rule |-> [r.rule EXCEPT !.where = w.where]]

----------------------------------------------------------------------------
(* Specification of Policy(rules=[Rule(...)]) followed by apply_policy       *)

\* Sources of regular expressions: well-formed and malformed ones.
RegexSources ==
    {<<"a">>, <<"^", "a">>, <<"n", "$">>, <<"v">>,
     <<"[">>, <<"(">>, <<"*">>, <<"a", ")">>, <<"a", "*", "*">>}

\* The value written under a metadata key: a literal, or a dict.
MetaLiteral(equals) == [form |-> "lit", equals |-> equals, matches |-> None]
MetaDict(equals, matches) == [form |-> "dict", equals |-> equals, matches |-> matches]

MetadataInputs ==
    {None, Some([k \in {} |-> MetaLiteral(None)])}
    \cup {Some([brand |-> x]) :
            x \in {MetaLiteral(Some(Visa)), MetaLiteral(None),
                   MetaDict(None, None), MetaDict(Some(Visa), None),
                   MetaDict(None, Some(<<"v">>)), MetaDict(None, Some(<<"(">>)),
                   MetaDict(Some(Visa), Some(<<"[">>))}}

WhereInputs ==
    [min_confidence : {None, Some(3), Some(5), Some(7), Some(11)},
     max_confidence : {None, Some(5), Some(0 - 1)},
     value_matches : {None} \cup {Some(s) : s \in {<<"a">>, <<"^", "a">>, <<"[">>, <<"a", ")">>}},
     normalized_matches : {None} \cup {Some(s) : s \in {<<"n", "$">>, <<"(">>, <<"*">>}},
     metadata : MetadataInputs]

Str_generalize == <<"g", "e", "n", "e", "r", "a", "l", "i", "z", "e">>
Str_pseudonymize == <<"p", "s", "e", "u", "d", "o", "n", "y", "m", "i", "z", "e">>

\* Actions written by the caller.
ActionInputs ==
    {Str_redact, Str_mask, Str_tokenize, Str_erase, Str_scrubbed, Str_generalize,
     Str_pseudonymize, <<>>,
     <<" ", "R", "e", "d", "a", "c", "t">>,
     <<"M", "A", "S", "K", " ">>,
     <<"t", "o", "k", "e", "n", "i", "s", "e">>,
     <<"p", "s", "e", "u", "d", "o", "n", "y", "m", "i", "s", "e">>,
     <<"G", "e", "n", "e", "r", "a", "l", "i", "s", "e">>,
     <<"s", "c", "r", "u", "b", "s">>,
     <<"r", "e", "d", "a", "c", "t", "e", "d">>,
     <<"m", "a", " ", "s", "k">>}

RulePayload(field, action) ==
    [id |-> Some(<<"r">>), field |-> field, action |-> action, replacement |-> None,
     keep_head |-> None, keep_tail |-> Some(1), mask_glyph |-> None, salt |-> None]

RuleArgs ==
    {[payload |-> RulePayload(k, a), where |-> None] : k \in Kinds, a \in ActionInputs}
    \cup {[payload |-> RulePayload(Email, Str_redact), where |-> Some(w)] : w \in WhereInputs}

RuleFindings ==
    {Finding(k, PySlice(WhereText, 0, 1), <<0, 1>>, c, n, x) :
        k \in {Email}, c \in {3, 6}, n \in {None, Some(<<"n">>)},
        x \in {NoExtras, [brand |-> Visa]}}

InitRule ==
    /\ arg \in RuleArgs
    /\ text = WhereText
    /\ findings \in {<<f>> : f \in RuleFindings}
    /\ policy = <<>>
    /\ out = <<>>
    /\ log = <<>>
    /\ pc = "new"
    /\ doc = Unused
    /\ detectors = Unused
    /\ prev = Unused
    /\ ret = Unused

\* Policy(version=1, name=..., rules=[Rule(...)]) returns the policy.
RuleConstructed ==
    /\ pc = "new"
    /\ Rule_new(arg.payload, arg.where).ok
    /\ policy' = <<Rule_new(arg.payload, arg.where).rule>>
    /\ pc' = "ready"
    /\ UNCHANGED <<text, findings, out, log, doc, detectors, prev, arg, ret>>

\* The construction raises ValidationError: there is no policy to apply.
RuleRaises ==
    /\ pc = "new"
    /\ ~Rule_new(arg.payload, arg.where).ok
    /\ pc' = "raised"
    /\ UNCHANGED <<text, findings, policy, out, log, doc, detectors, prev, arg, ret>>

NextRule == RuleConstructed \/ RuleRaises \/ ApplyPolicyReturns

SpecRule == InitRule /\ [][NextRule]_vars

\* The where mapping d defines no predicate.
NoConstraint(d) ==
    /\ IsNone(d.min_confidence) /\ IsNone(d.max_confidence)
    /\ IsNone(d.value_matches) /\ IsNone(d.normalized_matches)
    /\ (IsNone(d.metadata) \/ DOMAIN Get(d.metadata) = {})

MinAboveMax(d) ==
    /\ ~IsNone(d.min_confidence) /\ ~IsNone(d.max_confidence)
    /\ Get(d.min_confidence) > Get(d.max_confidence)

Malformed(v) == ~IsNone(v) /\ ~re_compile(Get(v))

MalformedRegexIn(d) ==
    \/ Malformed(d.value_matches)
    \/ Malformed(d.normalized_matches)
    \/ /\ ~IsNone(d.metadata)
       /\ \E key \in DOMAIN Get(d.metadata) :
            Get(d.metadata)[key].form = "dict" /\ Malformed(Get(d.metadata)[key].matches)

\* C22: a where clause with no constraint, with min_confidence above
\* max_confidence, or with a malformed regex (value_matches,
\* normalized_matches, a metadata matches) makes the construction raise, so
\* that no policy holds it and apply_policy never runs with it.
C22_BadWhereClauseIsRejectedAtConstruction ==
    (/\ ~IsNone(arg.where)
     /\ \/ NoConstraint(Get(arg.where))
        \/ MinAboveMax(Get(arg.where))
        \/ MalformedRegexIn(Get(arg.where)))
    => /\ pc \in {"new", "raised"}
       /\ policy = <<>>
       /\ out = <<>> /\ log = <<>>

\* A clause whose only fault is min_confidence 0.7 above max_confidence 0.5
\* was rejected.
C22_Witness ==
    /\ pc = "raised"
    /\ ~IsNone(arg.where)
    /\ MinAboveMax(Get(arg.where))
    /\ ~NoConstraint(Get(arg.where))
    /\ ~MalformedRegexIn(Get(arg.where))
    /\ ConfidenceFieldOk(Get(arg.where).min_confidence)
    /\ ConfidenceFieldOk(Get(arg.where).max_confidence)
    /\ _coerce_metadata(Get(arg.where).metadata).ok

\* The action the caller wrote, trimmed and lower-cased.
ActionKey == PyLower(PyStrip(arg.payload.action))

\* The alias mapping of the four British spellings, any other key unchanged.
ListedAliasOf(key) ==
    IF key \in {<<"t", "o", "k", "e", "n", "i", "s", "e">>,
                <<"p", "s", "e", "u", "d", "o", "n", "y", "m", "i", "s", "e">>}
    THEN Str_tokenize
    ELSE IF key = <<"s", "c", "r", "u", "b">> THEN Str_redact
    ELSE IF key = <<"g", "e", "n", "e", "r", "a", "l", "i", "s", "e">> THEN Str_mask
    ELSE key

\* The same mapping with the American spellings pseudonymize and generalize.
EveryAliasOf(key) ==
    IF key = Str_pseudonymize THEN Str_tokenize
    ELSE IF key = Str_generalize THEN Str_mask
    ELSE ListedAliasOf(key)

\* Every rule of the policy that selected findings transformed each of them.
NoRuleSkipped ==
    \A ri \in 1..Len(policy) :
        /\ policy[ri].action \in {"redact", "mask", "tokenize"}
        /\ \A k \in 1..Len(Targets(policy[ri], findings)) :
            Transformed(ri, Targets(policy[ri], findings)[k])

\* C23 as stated: with the alias mapping tokenise/pseudonymise -> tokenize,
\* scrub -> redact, generalise -> mask, the construction of a rule without a
\* where clause succeeds exactly when the mapped action is redact, mask or
\* tokenize, and apply_policy transforms the findings of every rule that
\* selects some.
C23_AcceptedExactlyForListedAliases ==
    /\ (IsNone(arg.where) /\ pc # "new") =>
        (pc # "raised" <=> ListedAliasOf(ActionKey) \in {Str_redact, Str_mask, Str_tokenize})
    /\ pc = "returned" => NoRuleSkipped

\* C23: the construction of a rule without a where clause succeeds exactly
\* when its action, trimmed, lower-cased and mapped through the aliases
\* (tokenise, pseudonymise, pseudonymize -> tokenize; scrub -> redact;
\* generalise, generalize -> mask), is redact, mask or tokenize; the
\* constructed rule holds that mapped action, and apply_policy transforms the
\* findings of every rule that selects some.
C23_AcceptedExactlyForKnownActions ==
    /\ (IsNone(arg.where) /\ pc # "new") =>
        /\ pc # "raised" <=> EveryAliasOf(ActionKey) \in {Str_redact, Str_mask, Str_tokenize}
        /\ pc # "raised" =>
            \/ policy[1].action = "redact" /\ EveryAliasOf(ActionKey) = Str_redact
            \/ policy[1].action = "mask" /\ EveryAliasOf(ActionKey) = Str_mask
            \/ policy[1].action = "tokenize" /\ EveryAliasOf(ActionKey) = Str_tokenize
    /\ pc = "returned" => NoRuleSkipped

\* A rule written with the action "generalize" was constructed with the
\* action mask and apply_policy masked the finding it selects.
C23_Witness ==
    /\ pc = "returned"
    /\ arg.payload.action = Str_generalize
    /\ policy[1].action = "mask"
    /\ Transformed(1, 1)
    /\ out # text

----------------------------------------------------------------------------
(* policy/builder.py: PolicyBuilder, and the three ways to a Policy          *)

\* f"{n:02d}" for n < 100
TwoDigits(n) == <<Digits[(n \div 10) + 1], Digits[(n % 10) + 1]>>

\* PolicyBuilder._next_id after the counter was incremented to counter:
\* f"rule_{norm_field}_{action}_{counter:02d}"
_next_id(field, action, counter) ==
    LET stripped == PyLower(PyStrip(field))
        norm_field == [i \in 1..Len(stripped) |->
                          IF stripped[i] = " " THEN "_" ELSE stripped[i]]
    IN  <<"r", "u", "l", "e", "_">> \o norm_field \o <<"_">> \o action
            \o <<"_">> \o TwoDigits(counter)

\* PolicyBuilder.rule(id=id, field=field, action=action) on the builder b:
\* the id is "id or self._next_id(...)", so the counter moves only when no id
\* (or an empty one) was given, and it moves before Rule(**data) validates.
PolicyBuilder_rule(b, id, field, action) ==
    LET generate == IsNone(id) \/ Get(id) = <<>>
        counter == IF generate THEN b._counter + 1 ELSE b._counter
        made == Rule_new([RulePayload(field, action) EXCEPT
                            !.id = IF generate THEN Some(_next_id(field, action, counter))
                                   ELSE id],
                         None)
    IN  [ok |-> made.ok,
         b |-> [_counter |-> counter,
                _rules |-> IF made.ok THEN Append(b._rules, made.rule) ELSE b._rules]]

Str_rule_1 == <<"r", "u", "l", "e", "_", "1">>
Str_rule_email_redact_01 ==
    <<"r", "u", "l", "e", "_", "e", "m", "a", "i", "l", "_",
      "r", "e", "d", "a", "c", "t", "_", "0", "1">>

\* Explicit ids given by the caller.
BuilderIds == {None, Some(<<"a">>), Some(Str_rule_email_redact_01)}

\* Rules handed to Policy(rules=[...]).
DirectRules ==
    {[RulePayload(Email, Str_redact) EXCEPT !.id = Some(i)] : i \in {<<"a">>, <<"b">>}}

\* Documents handed to load_policy: rules with and without an id.
IdDocs ==
    [version : {Some(1)},
     defaults_action : {None},
     transforms : {DocTransforms},
     rules : UNION {[1..k ->
                {[RawRule EXCEPT !.field = Some(Email), !.action = Some(Str_redact), !.id = i] :
                    i \in {None, Some(Str_rule_1), Some(<<"a">>)}}] : k \in 1..MaxRules}]

\* doc is the PolicyBuilder (its _counter and _rules), policy the rules of the
\* Policy that was constructed, ret the way it was constructed.
InitBuilder ==
    /\ doc = [_counter |-> 0, _rules |-> <<>>]
    /\ policy = <<>>
    /\ ret = "none"
    /\ pc = "building"
    /\ text = Unused
    /\ findings = Unused
    /\ out = Unused
    /\ log = Unused
    /\ detectors = Unused
    /\ prev = Unused
    /\ arg = Unused

\* builder.rule(...) returns (redact, mask and tokenize forward to it).
BuilderRule ==
    /\ pc = "building"
    /\ Len(doc._rules) < MaxRules
    /\ \E id \in BuilderIds, field \in {Email, <<" ", "E", "m", "a", "i", "l">>},
          action \in {Str_redact, Str_mask} :
        /\ PolicyBuilder_rule(doc, id, field, action).ok
        /\ doc' = PolicyBuilder_rule(doc, id, field, action).b
    /\ UNCHANGED <<text, findings, policy, out, log, pc, detectors, prev, arg, ret>>

\* builder.rule(...) raises the ValidationError of Rule: no rule is appended,
\* a generated id is used up.
BuilderRuleRaises ==
    /\ pc = "building"
    /\ doc._counter < MaxRules
    /\ \E id \in BuilderIds :
        /\ ~PolicyBuilder_rule(doc, id, Email, Str_erase).ok
        /\ doc' = PolicyBuilder_rule(doc, id, Email, Str_erase).b
    /\ UNCHANGED <<text, findings, policy, out, log, pc, detectors, prev, arg, ret>>

\* builder.build()
BuilderBuild ==
    /\ pc = "building"
    /\ policy' = doc._rules
    /\ ret' = "builder"
    /\ pc' = "built"
    /\ UNCHANGED <<text, findings, out, log, doc, detectors, prev, arg>>

\* Policy(version=1, name=..., rules=[...])
PolicyConstructed ==
    /\ pc = "building"
    /\ doc._rules = <<>>
    /\ \E rules \in UNION {[1..k -> DirectRules] : k \in 1..MaxRules} :
        /\ PolicyFromPayload([version |-> Some(1), rules |-> rules]).ok
        /\ policy' = PolicyFromPayload([version |-> Some(1), rules |-> rules]).rules
    /\ ret' = "direct"
    /\ pc' = "built"
    /\ UNCHANGED <<text, findings, out, log, doc, detectors, prev, arg>>

\* load_policy(path)
PolicyLoaded ==
    /\ pc = "building"
    /\ doc._rules = <<>>
    /\ \E d \in IdDocs :
        /\ load_policy(d).ok
        /\ policy' = load_policy(d).rules
    /\ ret' = "loader"
    /\ pc' = "built"
    /\ UNCHANGED <<text, findings, out, log, doc, detectors, prev, arg>>

NextBuilder ==
    BuilderRule \/ BuilderRuleRaises \/ BuilderBuild \/ PolicyConstructed \/ PolicyLoaded

SpecBuilder == InitBuilder /\ [][NextBuilder]_vars

\* C24: in every Policy that was constructed (directly, through
\* PolicyBuilder, through the loader) the ids of the rules are pairwise
\* distinct.
C24_RuleIdsArePairwiseDistinct ==
    pc = "built" =>
        \A i \in 1..Len(policy) : \A j \in 1..Len(policy) :
            i # j => policy[i].id # policy[j].id

----------------------------------------------------------------------------
(* Specification of two apply_policy calls that share one Policy             *)

Calls == {1, 2}

\* Mutant: one ledger serves every call (a module-level list).
OffsetsOf_module_level(c) == 1

\* The list "offsets" of call c: line 89 binds a new list in the frame of
\* each call, so the list of a call is its own.
OffsetsOf(c) == c

\* The rules of the shared Policy: two of them change the length of the text.
SharedRules ==
    {[Rule("r", Email, "redact") EXCEPT !.replacement = Some(<<"X", "X", "X">>)],
     [Rule("r", Phone, "mask") EXCEPT !.keep_head = 1, !.keep_tail = 1],
     Rule("r", Phone, "tokenize")}

\* The findings lists of the second call.
SecondCallFindings ==
    {<<Finding(Email, PySlice(BaseText(MaxTextLen), 0, 1), <<0, 1>>, 9, None, NoExtras)>>,
     <<Finding(Email, PySlice(BaseText(MaxTextLen), 0, 1), <<0, 1>>, 9, None, NoExtras),
       Finding(Phone, PySlice(BaseText(MaxTextLen), 1, 2), <<1, 2>>, 9, None, NoExtras)>>}

\* policy is the shared Policy, arg the Policy and the findings lists as the
\* callers built them, findings[c] and text[c] the arguments of call c,
\* prev[c] the index of the rule call c runs next, out[c] its local out,
\* doc[o] the list object o holding offsets, log[c] the replacements call c
\* made, ret[c] the text call c returned.
InitShared ==
    /\ policy \in [1..MaxRules -> SharedRules]
    /\ text = [c \in Calls |-> BaseText(MaxTextLen)]
    /\ \E fs1 \in {fs \in ScanLists(EngineFindings(BaseText(MaxTextLen)), MaxFindings) :
                        \A i \in 1..Len(fs) : fs[i].span[1] < fs[i].span[2]},
          fs2 \in SecondCallFindings :
        findings = [c \in Calls |-> IF c = 1 THEN fs1 ELSE fs2]
    /\ arg = [policy |-> policy, findings |-> findings]
    /\ pc = [c \in Calls |-> "ready"]
    /\ prev = [c \in Calls |-> 0]
    /\ out = [c \in Calls |-> <<>>]
    /\ doc = [c \in Calls |-> <<>>]
    /\ log = [c \in Calls |-> <<>>]
    /\ ret = [c \in Calls |-> None]
    /\ detectors = Unused

\* Lines 82-89 of call c: out = text, by_kind is filled, offsets = [].
CallStarts(c) ==
    /\ pc[c] = "ready"
    /\ pc' = [pc EXCEPT ![c] = "running"]
    /\ out' = [out EXCEPT ![c] = text[c]]
    /\ doc' = [doc EXCEPT ![OffsetsOf(c)] = <<>>]
    /\ prev' = [prev EXCEPT ![c] = 1]
    /\ UNCHANGED <<text, findings, policy, log, detectors, arg, ret>>

\* One iteration of "for rule in policy.rules" of call c.
CallRunsRule(c) ==
    /\ pc[c] = "running"
    /\ prev[c] <= Len(policy)
    /\ \E st \in {RuleStep([status |-> "ok", out |-> out[c],
                            offsets |-> doc[OffsetsOf(c)], log |-> log[c]],
                           policy[prev[c]], prev[c], findings[c])} :
        /\ st.status = "ok"
        /\ out' = [out EXCEPT ![c] = st.out]
        /\ doc' = [doc EXCEPT ![OffsetsOf(c)] = st.offsets]
        /\ log' = [log EXCEPT ![c] = st.log]
    /\ prev' = [prev EXCEPT ![c] = prev[c] + 1]
    /\ UNCHANGED <<text, findings, policy, pc, detectors, arg, ret>>

\* return out
CallReturns(c) ==
    /\ pc[c] = "running"
    /\ prev[c] > Len(policy)
    /\ ret' = [ret EXCEPT ![c] = Some(out[c])]
    /\ pc' = [pc EXCEPT ![c] = "returned"]
    /\ UNCHANGED <<text, findings, policy, out, log, doc, detectors, prev, arg>>

NextShared ==
    \E c \in Calls : CallStarts(c) \/ CallRunsRule(c) \/ CallReturns(c)

SpecShared == InitShared /\ [][NextShared]_vars

\* C25: apply_policy leaves the Policy, its rules, the findings lists and the
\* findings as the callers built them, and whatever the interleaving of two
\* calls that share the Policy, each call returns the text it returns when it
\* runs alone.
C25_CallsOnSharedPolicyAreIndependent ==
    /\ policy = arg.policy
    /\ findings = arg.findings
    /\ \A c \in Calls :
        pc[c] = "returned" =>
            ret[c] = Some(apply_policy(arg.policy, arg.findings[c], text[c]).out)

\* Both calls are between their first and their second rule, each with a
\* ledger of its own that the first rule filled, on different findings.
C25_Witness ==
    /\ pc[1] = "running" /\ pc[2] = "running"
    /\ prev[1] = 2 /\ prev[2] = 2
    /\ findings[1] # findings[2]
    /\ doc[1] # <<>> /\ doc[2] # <<>>
    /\ doc[1] # doc[2]
    /\ out[1] # text[1]
    /\ out[2] # text[2]

----------------------------------------------------------------------------
(* Specification of one apply_policy call on findings of two kinds that may  *)
(* overlap, under a policy of three rules                                    *)

\* Length of the text of this specification.
OverlapTextLen == 3

OrderRules ==
    {[Rule("r", Email, "redact") EXCEPT !.replacement = Some(<<"X">>)],
     [Rule("r", Email, "mask") EXCEPT !.keep_head = 0, !.keep_tail = 1],
     Rule("r", Email, "tokenize"),
     [Rule("r", Phone, "redact") EXCEPT !.replacement = Some(<<"X">>)],
     [Rule("r", Phone, "mask") EXCEPT !.keep_head = 1, !.keep_tail = 1]}

\* One finding of each kind, with any valid span, in either list order.
OrderFindings ==
    {<<Finding(ks[1], PySlice(BaseText(OverlapTextLen), s1[1], s1[2]), s1, 9, None, NoExtras),
       Finding(ks[2], PySlice(BaseText(OverlapTextLen), s2[1], s2[2]), s2, 9, None, NoExtras)>> :
        ks \in {<<Email, Phone>>, <<Phone, Email>>},
        s1 \in Spans(OverlapTextLen), s2 \in Spans(OverlapTextLen)}

InitOrder ==
    /\ text = BaseText(OverlapTextLen)
    /\ findings \in OrderFindings
    /\ policy \in [1..3 -> OrderRules]
    /\ out = <<>>
    /\ log = <<>>
    /\ pc = "ready"
    /\ doc = Unused
    /\ detectors = Unused
    /\ prev = Unused
    /\ arg = Unused
    /\ ret = Unused

SpecOrder == InitOrder /\ [][Next]_vars

\* C26: for findings with valid original spans, findings of different kinds
\* that overlap included, every adjusted span apply_policy uses for a
\* replacement satisfies 0 <= adj_start <= adj_end <= len(current text) when
\* the replacement is applied.
C26_AdjustedSpansStayInsideCurrentText ==
    (pc = "returned" /\ InsideText(findings, text)) =>
        \A k \in 1..Len(log) :
            /\ 0 <= log[k].adj_start
            /\ log[k].adj_start <= log[k].adj_end
            /\ log[k].adj_end <= log[k].len_before

\* The policy with the rules i and i + 1 swapped.
Swapped(rules, i) ==
    [k \in 1..Len(rules) |->
        IF k = i THEN rules[i + 1] ELSE IF k = i + 1 THEN rules[i] ELSE rules[k]]

\* C27: for findings with non-empty, pairwise disjoint spans, swapping two
\* adjacent rules that target different kinds does not change the text
\* apply_policy returns.
C27_AdjacentRulesOfDifferentKindsCommute ==
    (pc = "returned" /\ NonEmptySpans(findings) /\ Separated(findings)) =>
        \A i \in 1..(Len(policy) - 1) :
            policy[i].field # policy[i + 1].field =>
                /\ apply_policy(Swapped(policy, i), findings, text).status = "ok"
                /\ apply_policy(Swapped(policy, i), findings, text).out = out

\* Three rules rewrote both findings, the first two target different kinds
\* and change the length of the text, and the third rewrites again what one of
\* them wrote.
C27_Witness ==
    /\ pc = "returned"
    /\ NonEmptySpans(findings) /\ Separated(findings)
    /\ policy[1].field # policy[2].field
    /\ policy[3].field = Phone
    /\ Len(log) = 3
    /\ \A k \in 1..2 : Len(log[k].replacement) # log[k].adj_end - log[k].adj_start
    /\ log[3].adj_start # findings[log[3].f].span[1]
    /\ apply_policy(Swapped(policy, 1), findings, text).out = out

----------------------------------------------------------------------------
(* Specification of the two mod-97 reductions on one numeric string          *)

\* Longest free tail of the numeric strings.
MaxNumTail == 2

\* Heads of the numeric strings: none, one chunk, two chunks, and heads that
\* cut the tail across a chunk boundary.
NumHeads ==
    {<<>>,
     <<"0", "0", "0", "0", "0", "0", "0", "0", "0">>,
     <<"9", "9", "9", "9", "9", "9", "9", "9", "9">>,
     <<"1", "2", "3", "4", "5", "6", "7", "8", "9">>,
     <<"0", "9", "7", "0", "0", "0", "0", "9", "6">>,
     <<"9", "9", "9", "9", "9", "9", "9", "9">>,
     <<"3", "1", "4", "1", "5", "9", "2", "6", "5", "3", "5", "8", "9", "7", "9", "3", "2">>,
     <<"9", "9", "9", "9", "9", "9", "9", "9", "9", "0", "0", "0", "0", "0", "0", "0", "0", "0">>,
     <<"2", "7", "1", "8", "2", "8", "1", "8", "2", "8", "4", "5", "9", "0", "4", "5", "2", "3">>}

NumStrings == {h \o t : h \in NumHeads, t \in Strings(Range(Digits), MaxNumTail)}

InitMod97 ==
    /\ arg \in NumStrings
    /\ ret = Unused
    /\ pc = "ready"
    /\ text = Unused
    /\ findings = Unused
    /\ policy = Unused
    /\ out = Unused
    /\ log = Unused
    /\ doc = Unused
    /\ detectors = Unused
    /\ prev = Unused

\* Both reductions run on the numeric string, and int(num) % 97 with them.
Mod97Reduces ==
    /\ pc = "ready"
    /\ ret' = [chunked |-> ChunkedMod97(arg, 0),
               digitwise |-> Mod97(arg, 0),
               whole |-> LimbsMod97(IntOf(arg), 0)]
    /\ pc' = "returned"
    /\ UNCHANGED <<text, findings, policy, out, log, doc, detectors, prev, arg>>

NextMod97 == Mod97Reduces

SpecMod97 == InitMod97 /\ [][NextMod97]_vars

\* C28: for every numeric string the reduction by chunks of nine digits
\* returns the remainder of the digit-by-digit reduction of iban_check, which
\* is the remainder of the whole number modulo 97; the two agree on the
\* strings of remainder 1.
C28_ChunkedReductionAgreesWithDigitwise ==
    pc = "returned" =>
        /\ ret.chunked = ret.digitwise
        /\ ret.chunked = ret.whole
        /\ 0 <= ret.chunked /\ ret.chunked < 97

\* A string of more than two chunks has remainder 1 under both reductions.
C28_Witness ==
    /\ pc = "returned"
    /\ Len(arg) > 2 * ChunkLen
    /\ ret.chunked = 1
    /\ ret.digitwise = 1

----------------------------------------------------------------------------
(* Specification of a DetectorRegistry under register, unregister and a scan *)
(* that runs detector by detector (detectors/registry.py)                    *)

\* Calls of register and unregister in one behaviour.
MaxOps == 3

\* register(detector): self.detectors.append(detector)
register(ds, detector) == Append(ds, detector)

\* Mutant: only the first detector of that name is removed.
unregister_first_only(ds, name) ==
    IF \E i \in 1..Len(ds) : ds[i].name = name
    THEN LET first == CHOOSE i \in 1..Len(ds) :
                        ds[i].name = name /\ \A j \in 1..(i - 1) : ds[j].name # name
         IN  SubSeq(ds, 1, first - 1) \o SubSeq(ds, first + 1, Len(ds))
    ELSE ds

\* unregister(name): [d for d in self.detectors if getattr(d, "name", "") != name]
unregister(ds, name) == SelectSeq(ds, LAMBDA d : d.name # name)

\* Detectors that implement the protocol (name, detect); two of them share a
\* name.
RegistryDetectors ==
    {Detector(Email, "twice"), Detector(Email, "silent"), Detector(Phone, "twice")}

Str_zip == <<"z", "i", "p">>

\* doc is the heap of list objects and detectors the one self.detectors
\* refers to; log is the history of register and unregister calls, ret the
\* detector list before the last of them; prev is the frame of the scan (the
\* list object its for loop iterates, the index of the iterator, the loop's
\* accumulator); arg keeps the list the constructor received and the list of
\* the registry when the scan started.
InitRegistry ==
    /\ \E ds \in SeqsUpTo(RegistryDetectors, 1) :
        /\ doc = <<ds>>
        /\ arg = [initial |-> ds, at_start |-> <<>>]
        /\ ret = ds
    /\ detectors = 1
    /\ log = <<>>
    /\ prev = [list |-> 0, i |-> 0,
               acc |-> [findings |-> <<>>, invoked |-> <<>>, propagated |-> None]]
    /\ findings = <<>>
    /\ text = <<"a">>
    /\ pc = "idle"
    /\ policy = Unused
    /\ out = Unused

\* registry.register(d): the list object itself is appended to.
Register ==
    /\ Len(log) < MaxOps
    /\ \E d \in RegistryDetectors :
        /\ doc' = [doc EXCEPT ![detectors] = register(@, d)]
        /\ log' = Append(log, [op |-> "register", d |-> d, name |-> d.name])
    /\ ret' = doc[detectors]
    /\ UNCHANGED <<text, findings, policy, out, pc, detectors, prev, arg>>

\* registry.unregister(name): self.detectors is bound to a new list object.
Unregister ==
    /\ Len(log) < MaxOps
    /\ \E name \in {Email, Phone, Str_zip} :
        /\ doc' = Append(doc, unregister(doc[detectors], name))
        /\ log' = Append(log, [op |-> "unregister", d |-> Detector(name, "silent"),
                               name |-> name])
    /\ detectors' = Len(doc) + 1
    /\ ret' = doc[detectors]
    /\ UNCHANGED <<text, findings, policy, out, pc, prev, arg>>

\* scan(text) begins: findings = [] and the for loop takes an iterator over
\* the list object self.detectors refers to.
ScanStarts ==
    /\ pc = "idle"
    /\ prev' = [list |-> detectors, i |-> 0,
                acc |-> [findings |-> <<>>, invoked |-> <<>>, propagated |-> None]]
    /\ arg' = [arg EXCEPT !.at_start = doc[detectors]]
    /\ pc' = "scanning"
    /\ UNCHANGED <<text, findings, policy, out, log, doc, detectors, ret>>

\* One turn of the loop: the iterator yields the next detector of its list
\* object as the list is now, and detect runs.
ScanInvokes ==
    /\ pc = "scanning"
    /\ prev.i < Len(doc[prev.list])
    /\ prev' = [prev EXCEPT !.i = @ + 1,
                            !.acc = CollectStep(doc[prev.list][prev.i + 1], text, @)]
    /\ UNCHANGED <<text, findings, policy, out, log, pc, doc, detectors, arg, ret>>

\* The iterator is exhausted: scan returns the sorted findings.
ScanFinishes ==
    /\ pc = "scanning"
    /\ prev.i >= Len(doc[prev.list])
    /\ findings' = SortedBySpan(prev.acc.findings)
    /\ pc' = "scanned"
    /\ UNCHANGED <<text, policy, out, log, doc, detectors, prev, arg, ret>>

NextRegistry == Register \/ Unregister \/ ScanStarts \/ ScanInvokes \/ ScanFinishes

SpecRegistry == InitRegistry /\ [][NextRegistry]_vars

\* The calls that registered a detector, the constructor's list first.
Registrations ==
    [i \in 1..Len(arg.initial) |-> [op |-> "register", d |-> arg.initial[i],
                                    name |-> arg.initial[i].name]]
    \o log

\* The registered detectors, in registration order, whose name was not
\* unregistered afterwards.
StillRegistered ==
    LET kept == SelectSeq([i \in 1..Len(Registrations) |-> i],
                    LAMBDA i :
                        /\ Registrations[i].op = "register"
                        /\ \A j \in (i + 1)..Len(Registrations) :
                            ~ /\ Registrations[j].op = "unregister"
                              /\ Registrations[j].name = Registrations[i].name)
    IN  [k \in 1..Len(kept) |-> Registrations[kept[k]].d]

\* C29: after any sequence of register and unregister calls the detector list
\* is the registered detectors in registration order minus those whose name
\* was unregistered after their registration; register appends at the end,
\* and unregister of a name no detector has changes nothing.
C29_ListFollowsRegisterAndUnregister ==
    /\ doc[detectors] = StillRegistered
    /\ log # <<>> =>
        /\ log[Len(log)].op = "register" => doc[detectors] = Append(ret, log[Len(log)].d)
        /\ (/\ log[Len(log)].op = "unregister"
            /\ \A i \in 1..Len(ret) : ret[i].name # log[Len(log)].name)
           => doc[detectors] = ret

\* The constructor's detector and a registered one, both named email, were
\* removed by one unregister; the email detector registered afterwards is the
\* whole list.
C29_Witness ==
    /\ Len(log) = 3
    /\ log[1].op = "register" /\ log[1].name = Email
    /\ log[2].op = "unregister" /\ log[2].name = Email
    /\ log[3].op = "register" /\ log[3].name = Email
    /\ Len(arg.initial) = 1 /\ arg.initial[1].name = Email
    /\ doc[detectors] = <<log[3].d>>

\* C30: a scan works on the detectors registered when it started: a register
\* or unregister call made while the scan is in progress changes neither the
\* detectors the scan invokes nor the findings it returns.
C30_ScanUsesDetectorsOfItsStart ==
    pc = "scanned" =>
        /\ prev.acc.invoked = arg.at_start
        /\ findings = scan(arg.at_start, text).findings

====
